---- MODULE Spec2Model ----
(***************************************************************************)
(* A model of the PROXY protocol library iqhive/go-proxyproto: the v1 and  *)
(* v2 header parsers, the header classifier and the interception wrapper   *)
(* (Conn) with its one-shot header read.                                   *)
(*                                                                         *)
(* Bytes are the integers 0..255 and byte strings are sequences of them.   *)
(* A parser that reads from a bufio.Reader is an operator of the bytes the *)
(* reader holds and of the outcome of the read it is waiting for           *)
(* ("none": nothing yet, "eof", "timeout"): it answers "need" when the     *)
(* code would block in a read of the underlying connection, and otherwise  *)
(* the header or the error, with the number of bytes consumed.             *)
(***************************************************************************)
EXTENDS Integers, Sequences, FiniteSets, TLC

\* ------------------------------------------------------------------------
\* Byte-string helpers (Go slices and the strings/bytes packages).
\* ------------------------------------------------------------------------

Min(a, b) == IF a < b THEN a ELSE b

\* s[:n]
Take(s, n) == SubSeq(s, 1, Min(n, Len(s)))

\* s[n:]
Drop(s, n) == SubSeq(s, n + 1, Len(s))

\* bytes.IndexByte, 1-based; 0 when b does not occur.
IndexByte(s, b) ==
    IF \E i \in 1..Len(s) : s[i] = b
    THEN CHOOSE i \in 1..Len(s) : s[i] = b /\ \A j \in 1..(i - 1) : s[j] # b
    ELSE 0

\* strings.Split(s, sep) for a one-byte separator: empty tokens are kept.
RECURSIVE Split(_, _)
Split(s, sep) ==
    LET i == IndexByte(s, sep)
    IN  IF i = 0 THEN <<s>> ELSE <<Take(s, i - 1)>> \o Split(Drop(s, i), sep)

IsDigit(c) == c >= 48 /\ c <= 57

IsHex(c) == IsDigit(c) \/ (c >= 97 /\ c <= 102) \/ (c >= 65 /\ c <= 70)

HexVal(c) == IF IsDigit(c) THEN c - 48 ELSE IF c >= 97 THEN c - 87 ELSE c - 55

\* The decimal value of a digit string, saturated at 65536: every consumer
\* only compares the value with 255 or 65535.
RECURSIVE DecVal(_, _)
DecVal(s, acc) ==
    IF s = <<>> THEN acc
    ELSE DecVal(Tail(s), Min(acc * 10 + (Head(s) - 48), 65536))

\* strconv.Atoi: an optional sign and at least one decimal digit.
Atoi(s) ==
    LET signed == s # <<>> /\ s[1] \in {43, 45}
        digits == IF signed THEN Tail(s) ELSE s
        ok     == digits # <<>> /\ \A i \in 1..Len(digits) : IsDigit(digits[i])
        mag    == IF ok THEN DecVal(digits, 0) ELSE 0
    IN  [ok |-> ok, val |-> IF signed /\ s[1] = 45 THEN 0 - mag ELSE mag]

\* binary.BigEndian.Uint16
BE16(hi, lo) == hi * 256 + lo

\* ------------------------------------------------------------------------
\* Addresses and headers.
\* ------------------------------------------------------------------------

\* A nil net.Addr.
NilAddr == [Net |-> "nil", IP |-> <<>>, Port |-> 0, Name |-> <<>>]

TCPAddr(ip, port) == [Net |-> "tcp", IP |-> ip, Port |-> port, Name |-> <<>>]

UDPAddr(ip, port) == [Net |-> "udp", IP |-> ip, Port |-> port, Name |-> <<>>]

UnixAddr(net, name) == [Net |-> net, IP |-> <<>>, Port |-> 0, Name |-> name]

\* ProtocolVersionAndCommand: version 2 in the high nibble.
CmdLOCAL == 32

CmdPROXY == 33

\* AddressFamilyAndProtocol: family in the high nibble, protocol in the low.
UNSPEC == 0

TCPv4 == 17

UDPv4 == 18

TCPv6 == 33

UDPv6 == 34

UnixStream == 49

UnixDatagram == 50

IsIPv4(ap) == ap \div 16 = 1

IsIPv6(ap) == ap \div 16 = 2

IsUnix(ap) == ap \div 16 = 3

IsStream(ap) == ap % 16 = 1

IsDatagram(ap) == ap % 16 = 2

IsUnspec(ap) == ap = UNSPEC

IsLocal(cmd) == cmd = CmdLOCAL

supportedCommand == {CmdLOCAL, CmdPROXY}

\* A *Header. NilHeader is the nil pointer (a real header has Version 1 or 2).
NilHeader ==
    [Version |-> 0, Command |-> 0, TransportProtocol |-> 0,
     SourceAddr |-> NilAddr, DestinationAddr |-> NilAddr, rawTLVs |-> <<>>]

\* new(Header) with the given version and command.
NewHeader(version, cmd) ==
    [Version |-> version, Command |-> cmd, TransportProtocol |-> UNSPEC,
     SourceAddr |-> NilAddr, DestinationAddr |-> NilAddr, rawTLVs |-> <<>>]

\* What a parser answers: st is "need" (blocked in a read of the connection)
\* or "done"; err is "nil" or the error's name; n is the number of bytes the
\* parser consumed from the reader.
Need == [st |-> "need", header |-> NilHeader, err |-> "nil", n |-> 0]

Fail(e, n) == [st |-> "done", header |-> NilHeader, err |-> e, n |-> n]

Parsed(h, n) == [st |-> "done", header |-> h, err |-> "nil", n |-> n]

\* ------------------------------------------------------------------------
\* netip.ParseAddr, as parseV1IPAddress uses it.
\* ------------------------------------------------------------------------

NoIP == [ok |-> FALSE, is4 |-> FALSE, ip |-> <<>>]

\* One dotted-decimal field: 1 to 3 digits, no leading zero, at most 255.
V4FieldOk(f) ==
    /\ f # <<>>
    /\ \A i \in 1..Len(f) : IsDigit(f[i])
    /\ (Len(f) > 1 => f[1] # 48)
    /\ DecVal(f, 0) <= 255

\* netip.parseIPv4Fields: exactly four fields.
ParseIPv4(s) ==
    LET f == Split(s, 46)
    IN  IF Len(f) = 4 /\ \A i \in 1..4 : V4FieldOk(f[i])
        THEN [ok |-> TRUE, is4 |-> TRUE, ip |-> [i \in 1..4 |-> DecVal(f[i], 0)]]
        ELSE NoIP

\* The number of leading hex digits of s.
RECURSIVE HexRun(_)
HexRun(s) == IF s # <<>> /\ IsHex(Head(s)) THEN 1 + HexRun(Tail(s)) ELSE 0

RECURSIVE HexAcc(_, _)
HexAcc(s, acc) == IF s = <<>> THEN acc ELSE HexAcc(Tail(s), acc * 16 + HexVal(Head(s)))

\* The loop of netip.parseIPv6: hex groups separated by colons, at most one
\* "::" (ell is the byte position of the ellipsis, -1 when there is none) and
\* an optional trailing dotted IPv4 address.
RECURSIVE V6Loop(_, _, _)
V6Loop(s, ip, ell) ==
    IF Len(ip) >= 16 THEN [ok |-> TRUE, rest |-> s, ip |-> ip, ell |-> ell]
    ELSE
    LET off  == HexRun(s)
        acc  == HexAcc(Take(s, off), 0)
        bad  == [ok |-> FALSE, rest |-> s, ip |-> ip, ell |-> ell]
        ip2  == ip \o <<acc \div 256, acc % 256>>
        s1   == Drop(s, off)
        s2   == Tail(s1)
    IN  IF off = 0 \/ off > 4 THEN bad
        ELSE IF off < Len(s) /\ s[off + 1] = 46
        THEN LET v4 == ParseIPv4(s)
             IN  IF (ell < 0 /\ Len(ip) # 12) \/ Len(ip) + 4 > 16 \/ ~v4.ok THEN bad
                 ELSE [ok |-> TRUE, rest |-> <<>>, ip |-> ip \o v4.ip, ell |-> ell]
        ELSE IF s1 = <<>> THEN [ok |-> TRUE, rest |-> <<>>, ip |-> ip2, ell |-> ell]
        ELSE IF s1[1] # 58 \/ Len(s1) = 1 THEN bad
        ELSE IF s2[1] = 58
        THEN IF ell >= 0 THEN bad
             ELSE IF Len(s2) = 1
                  THEN [ok |-> TRUE, rest |-> <<>>, ip |-> ip2, ell |-> Len(ip2)]
                  ELSE V6Loop(Tail(s2), ip2, Len(ip2))
        ELSE V6Loop(s2, ip2, ell)

Zeros(n) == [i \in 1..n |-> 0]

\* netip.parseIPv6: the zone is split off, a leading "::" is taken, and a
\* short address is expanded at its ellipsis.
ParseIPv6(in) ==
    LET pct  == IndexByte(in, 37)
        s0   == IF pct = 0 THEN in ELSE Take(in, pct - 1)
        zbad == pct # 0 /\ pct = Len(in)
        lead == Len(s0) >= 2 /\ s0[1] = 58 /\ s0[2] = 58
        s    == IF lead THEN Drop(s0, 2) ELSE s0
        r    == V6Loop(s, <<>>, IF lead THEN 0 ELSE -1)
        i    == Len(r.ip)
    IN  IF zbad THEN NoIP
        ELSE IF lead /\ s = <<>> THEN [ok |-> TRUE, is4 |-> FALSE, ip |-> Zeros(16)]
        ELSE IF ~r.ok \/ r.rest # <<>> THEN NoIP
        ELSE IF i < 16
        THEN IF r.ell < 0 THEN NoIP
             ELSE [ok |-> TRUE, is4 |-> FALSE,
                   ip |-> Take(r.ip, r.ell) \o Zeros(16 - i) \o Drop(r.ip, r.ell)]
        ELSE IF r.ell >= 0 THEN NoIP
        ELSE [ok |-> TRUE, is4 |-> FALSE, ip |-> r.ip]

\* netip.ParseAddr: the first '.', ':' or '%' decides the family.
ParseAddr(s) ==
    LET marks == {i \in 1..Len(s) : s[i] \in {46, 58, 37}}
        first == CHOOSE i \in marks : \A j \in marks : i <= j
    IN  IF marks = {} THEN NoIP
        ELSE IF s[first] = 46 THEN ParseIPv4(s)
        ELSE IF s[first] = 58 THEN ParseIPv6(s)
        ELSE NoIP

\* netip.Addr.Is4In6: an IPv4-mapped IPv6 address, ::ffff:a.b.c.d.
Is4In6(a) ==
    a.ok /\ ~a.is4 /\ Take(a.ip, 10) = Zeros(10) /\ a.ip[11] = 255 /\ a.ip[12] = 255

\* ------------------------------------------------------------------------
\* The v1 (text) parser.
\* ------------------------------------------------------------------------

separator == 32

crlf == <<13, 10>>

SIGV1 == <<80, 82, 79, 88, 89>>

V1MaxLine == 107

\* parseV1PortNumber
parseV1PortNumber(portStr) ==
    LET a == Atoi(portStr)
    IN  IF ~a.ok \/ a.val < 0 \/ a.val > 65535
        THEN [ok |-> FALSE, port |-> 0]
        ELSE [ok |-> TRUE, port |-> a.val]

\* parseV1IPAddress: the address must be of the family of the protocol;
\* TCP6 also takes an IPv4-mapped IPv6 address.
OfFamily(protocol, a) ==
    IF ~a.ok THEN NoIP
    ELSE IF protocol = TCPv4 /\ a.is4 THEN a
    ELSE IF protocol = TCPv6 /\ (~a.is4 \/ Is4In6(a)) THEN a
    ELSE NoIP

parseV1IPAddress(protocol, addrStr) == OfFamily(protocol, ParseAddr(addrStr))

\* The read loop of parseVersion1 from byte i of the buffered bytes on: a
\* byte is taken, then LF ends the line, then 107 bytes without LF are too
\* many, then an empty buffer aborts. The answer is the number of bytes read,
\* with the error that ended the loop; lf is the first LF from byte i on.
V1ReadLine(buffered, i) ==
    LET lf == i - 1 + IndexByte(Drop(buffered, i - 1), 10)
    IN  IF lf >= i /\ lf <= V1MaxLine THEN [err |-> "nil", n |-> lf]
        ELSE IF Len(buffered) >= V1MaxLine
        THEN [err |-> "ErrVersion1HeaderTooLong", n |-> V1MaxLine]
        ELSE [err |-> "ErrCantReadVersion1Header", n |-> Len(buffered)]

\* The transport a v1 protocol token names: TCP4, TCP6 or UNKNOWN.
V1Transport(token) ==
    IF token = <<84, 67, 80, 52>> THEN TCPv4
    ELSE IF token = <<84, 67, 80, 54>> THEN TCPv6
    ELSE UNSPEC

\* The end of parseVersion1: both addresses, then both ports, then the header.
V1Addrs(h, tp, sip, dip, sp, dp, n) ==
    IF ~sip.ok \/ ~dip.ok THEN Fail("ErrInvalidAddress", n)
    ELSE IF ~sp.ok \/ ~dp.ok THEN Fail("ErrInvalidPortNumber", n)
    ELSE Parsed([h EXCEPT !.TransportProtocol = tp,
                          !.SourceAddr = TCPAddr(sip.ip, sp.port),
                          !.DestinationAddr = TCPAddr(dip.ip, dp.port)], n)

\* The tokens of a v1 line, after the framing checks.
V1Tokens(h, tokens, tp, n) ==
    IF tokens[2] \notin {<<84, 67, 80, 52>>, <<84, 67, 80, 54>>,
                         <<85, 78, 75, 78, 79, 87, 78>>}
    THEN Fail("ErrCantReadAddressFamilyAndProtocol", n)
    ELSE IF tp # UNSPEC /\ Len(tokens) < 6
    THEN Fail("ErrCantReadAddressFamilyAndProtocol", n)
    ELSE IF tp = UNSPEC
    THEN Parsed([h EXCEPT !.TransportProtocol = UNSPEC, !.Command = CmdLOCAL], n)
    ELSE V1Addrs(h, tp, parseV1IPAddress(tp, tokens[3]), parseV1IPAddress(tp, tokens[4]),
                 parseV1PortNumber(tokens[5]), parseV1PortNumber(tokens[6]), n)

V1Framed(h, tokens, n) ==
    IF Len(tokens) < 2 THEN Fail("ErrCantReadAddressFamilyAndProtocol", n)
    ELSE V1Tokens(h, tokens, V1Transport(tokens[2]), n)

\* The framing of a v1 line without the check for CR.
V1EndedAnyEnd(h, buf, n) == V1Framed(h, Split(Take(buf, Len(buf) - 2), separator), n)

\* The framing of a v1 line: CRLF at its end, and at least two tokens.
V1Ended(h, buf, n) ==
    IF Len(buf) < 2 \/ buf[Len(buf) - 1] # 13 THEN Fail("ErrLineMustEndWithCrlf", n)
    ELSE V1Framed(h, Split(Take(buf, Len(buf) - 2), separator), n)

\* initVersion1
initVersion1 == NewHeader(1, CmdPROXY)

\* parseVersion1 once its read loop has ended, with a line that may have any
\* length, and with a line that may have 107 bytes before its LF.
V1ReadUnbounded(h, buffered, line) ==
    IF IndexByte(buffered, 10) = 0 THEN Fail(line.err, line.n)
    ELSE V1Ended(h, Take(buffered, IndexByte(buffered, 10)), IndexByte(buffered, 10))

V1ReadOneMore(h, buffered, line) ==
    IF line.err = "nil" THEN V1Ended(h, Take(buffered, line.n), line.n)
    ELSE IF Len(buffered) > V1MaxLine /\ buffered[V1MaxLine + 1] = 10
    THEN V1Ended(h, Take(buffered, V1MaxLine + 1), V1MaxLine + 1)
    ELSE Fail(line.err, line.n)

\* parseVersion1 waiting for more bytes when the buffer has run out.
V1ReadWaits(h, buffered, line) ==
    IF line.err = "ErrCantReadVersion1Header" THEN Need
    ELSE IF line.err # "nil" THEN Fail(line.err, line.n)
    ELSE V1Ended(h, Take(buffered, line.n), line.n)

\* parseVersion1 once its read loop has ended.
V1Read(h, buffered, line) ==
    IF line.err # "nil" THEN Fail(line.err, line.n)
    ELSE V1Ended(h, Take(buffered, line.n), line.n)

\* parseVersion1(reader): buffered holds the bytes the reader has buffered,
\* ioerr the outcome of the read of the connection the first ReadByte waits
\* for when nothing is buffered.
parseVersion1(buffered, ioerr) ==
    IF buffered = <<>>
    THEN IF ioerr = "none" THEN Need ELSE Fail("ErrCantReadVersion1Header: " \o ioerr, 0)
    ELSE
    V1Read(initVersion1, buffered, V1ReadLine(buffered, 1))

\* ------------------------------------------------------------------------
\* The v2 (binary) parser.
\* ------------------------------------------------------------------------

SIGV2 == <<13, 10, 13, 10, 0, 13, 10, 81, 85, 73, 84, 10>>

lengthUnspec == 0

lengthV4 == 12

lengthV6 == 36

lengthUnix == 216

\* The size of the wrapper's bufio.Reader (GetOptimalBufferSize).
BufSize == 4096

\* A validateLength that takes every length.
validateLengthAlways(tp, length) == TRUE

\* Header.validateLength
validateLength(tp, length) ==
    IF IsIPv4(tp) THEN length >= lengthV4
    ELSE IF IsIPv6(tp) THEN length >= lengthV6
    ELSE IF IsUnix(tp) THEN length >= lengthUnix
    ELSE IF IsUnspec(tp) THEN length >= lengthUnspec
    ELSE FALSE

\* newIPAddr: nil for a transport that is neither stream nor datagram.
newIPAddr(transport, ip, port) ==
    IF IsStream(transport) THEN TCPAddr(ip, port)
    ELSE IF IsDatagram(transport) THEN UDPAddr(ip, port)
    ELSE NilAddr

\* parseUnixName: the bytes before the first NUL.
parseUnixName(b) ==
    LET i == IndexByte(b, 0) IN IF i = 0 THEN b ELSE Take(b, i - 1)

\* The addresses of a v2 payload (the bytes after the 16-byte prefix).
V2Addrs(h, p) ==
    LET tp == h.TransportProtocol
    IN  IF IsIPv4(tp)
        THEN [h EXCEPT !.SourceAddr = newIPAddr(tp, SubSeq(p, 1, 4), BE16(p[9], p[10])),
                       !.DestinationAddr = newIPAddr(tp, SubSeq(p, 5, 8), BE16(p[11], p[12]))]
        ELSE IF IsIPv6(tp)
        THEN [h EXCEPT !.SourceAddr = newIPAddr(tp, SubSeq(p, 1, 16), BE16(p[33], p[34])),
                       !.DestinationAddr = newIPAddr(tp, SubSeq(p, 17, 32), BE16(p[35], p[36]))]
        ELSE IF IsUnix(tp)
        THEN LET network == IF IsDatagram(tp) THEN "unixgram" ELSE "unix"
             IN  [h EXCEPT !.SourceAddr = UnixAddr(network, parseUnixName(SubSeq(p, 1, 108))),
                           !.DestinationAddr = UnixAddr(network, parseUnixName(SubSeq(p, 109, 216)))]
        ELSE h

\* An address block of no bytes.
V2FixedNone(tp) == 0

\* The bytes of the payload that the address block takes.
V2Fixed(tp) ==
    IF IsIPv4(tp) THEN lengthV4
    ELSE IF IsIPv6(tp) THEN lengthV6
    ELSE IF IsUnix(tp) THEN lengthUnix
    ELSE 0

\* What a read of the reader answers when the bytes it needs are not yet
\* buffered: it blocks in a read of the connection, or fails with e when that
\* read has failed. The parser turns every read error into its own error.
Short(ioerr, e, n) == IF ioerr = "none" THEN Need ELSE Fail(e, n)

\* parseVersion2(reader): buffered holds the bytes the reader has buffered,
\* ioerr the outcome of the read of the connection the parser waits for.
parseVersion2(buffered, ioerr) ==
    LET have   == Len(buffered)
        cmd    == buffered[13]
        tp     == buffered[14]
        length == BE16(buffered[15], buffered[16])
        h      == [NewHeader(2, cmd) EXCEPT !.TransportProtocol = tp]
        p      == SubSeq(buffered, 17, 16 + length)
        tlvs   == Drop(p, V2Fixed(tp))
    IN  IF have < 13
        THEN Short(ioerr, "ErrCantReadProtocolVersionAndCommand", have)
        ELSE IF cmd \notin supportedCommand
        THEN Fail("ErrUnsupportedProtocolVersionAndCommand", 13)
        ELSE IF have < 14
        THEN Short(ioerr, "ErrCantReadAddressFamilyAndProtocol", have)
        ELSE IF tp = UNSPEC /\ cmd # CmdLOCAL
        THEN Fail("ErrUnsupportedAddressFamilyAndProtocol", 14)
        ELSE IF have < 16 THEN Short(ioerr, "ErrCantReadLength", have)
        ELSE IF ~validateLength(tp, length) THEN Fail("ErrInvalidLength", 16)
        ELSE IF length = 0 THEN Parsed(h, 16)
        ELSE IF have - 16 < Min(length, BufSize) THEN Short(ioerr, "ErrInvalidLength", 16)
        ELSE IF length > BufSize THEN Fail("ErrInvalidLength", 16)
        ELSE Parsed([V2Addrs(h, p) EXCEPT !.rawTLVs = tlvs], 16 + length)

\* ------------------------------------------------------------------------
\* The formatters.
\* ------------------------------------------------------------------------

\* What a formatter returns.
Formatted(b) == [err |-> "nil", bytes |-> b]

FormatFails(e) == [err |-> e, bytes |-> <<>>]

\* net.IP.To4 and net.IP.To16; the empty sequence is the nil IP.
To4(ip) ==
    IF Len(ip) = 4 THEN ip
    ELSE IF Len(ip) = 16 /\ Take(ip, 10) = Zeros(10) /\ ip[11] = 255 /\ ip[12] = 255
    THEN Drop(ip, 12)
    ELSE <<>>

To16(ip) ==
    IF Len(ip) = 4 THEN Zeros(10) \o <<255, 255>> \o ip
    ELSE IF Len(ip) = 16 THEN ip
    ELSE <<>>

\* strconv.Itoa of a number that is not negative.
RECURSIVE Itoa(_)
Itoa(n) == IF n < 10 THEN <<48 + n>> ELSE Itoa(n \div 10) \o <<48 + (n % 10)>>

\* A 16-bit group in lower-case hexadecimal without leading zeros.
RECURSIVE HexStr(_)
HexStr(v) ==
    LET HexDigit(d) == IF d < 10 THEN 48 + d ELSE 87 + d
    IN  IF v < 16 THEN <<HexDigit(v)>> ELSE HexStr(v \div 16) \o <<HexDigit(v % 16)>>

\* The zero groups of the groups g from group i on.
RECURSIVE ZeroRun(_, _)
ZeroRun(g, i) == IF i <= 8 /\ g[i] = 0 THEN 1 + ZeroRun(g, i + 1) ELSE 0

\* The first longest run of at least two zero groups: its first group, or 0.
ZeroStart(g) ==
    LET best == {i \in 1..8 : /\ ZeroRun(g, i) >= 2
                               /\ \A j \in 1..8 : ZeroRun(g, j) <= ZeroRun(g, i)}
    IN  IF best = {} THEN 0 ELSE CHOOSE i \in best : \A j \in best : i <= j

\* The text of the groups from group i on, with "::" for the run of zeros
\* that starts at zs and ends before ze.
RECURSIVE Fmt6(_, _, _, _)
Fmt6(g, i, zs, ze) ==
    IF i > 8 THEN <<>>
    ELSE IF i = zs
    THEN <<58, 58>> \o (IF ze > 8 THEN <<>> ELSE HexStr(g[ze]) \o Fmt6(g, ze + 1, zs, ze))
    ELSE (IF i > 1 THEN <<58>> ELSE <<>>) \o HexStr(g[i]) \o Fmt6(g, i + 1, zs, ze)

\* net.IP.String: an IPv4 address and an IPv4-mapped IPv6 address are written
\* in the dotted form, every other IPv6 address in groups of 16 bits with its
\* first longest run of zero groups compressed.
IPString(ip) ==
    LET v4 == To4(ip)
        g  == [i \in 1..8 |-> BE16(ip[2 * i - 1], ip[2 * i])]
        zs == ZeroStart(g)
    IN  IF v4 # <<>>
        THEN Itoa(v4[1]) \o <<46>> \o Itoa(v4[2]) \o <<46>> \o Itoa(v4[3]) \o <<46>>
             \o Itoa(v4[4])
        ELSE Fmt6(g, 1, zs, zs + ZeroRun(g, zs))

\* formatVersion1 from its check of the converted addresses on.
V1Checked(name, sourceIP, destIP, sourcePort, destPort) ==
    IF sourceIP = <<>> \/ destIP = <<>> THEN FormatFails("ErrInvalidAddress")
    ELSE Formatted(SIGV1 \o <<separator>> \o name \o <<separator>> \o IPString(sourceIP)
                   \o <<separator>> \o IPString(destIP) \o <<separator>>
                   \o Itoa(sourcePort) \o <<separator>> \o Itoa(destPort) \o crlf)

\* Header.formatVersion1
formatVersion1(h) ==
    IF h.TransportProtocol \notin {TCPv4, TCPv6}
    THEN Formatted(<<80, 82, 79, 88, 89, 32, 85, 78, 75, 78, 79, 87, 78, 13, 10>>)
    ELSE IF h.SourceAddr.Net # "tcp" \/ h.DestinationAddr.Net # "tcp"
    THEN FormatFails("ErrInvalidAddress")
    ELSE IF h.TransportProtocol = TCPv4
    THEN V1Checked(<<84, 67, 80, 52>>, To4(h.SourceAddr.IP), To4(h.DestinationAddr.IP),
                   h.SourceAddr.Port, h.DestinationAddr.Port)
    ELSE V1Checked(<<84, 67, 80, 54>>, To16(h.SourceAddr.IP), To16(h.DestinationAddr.IP),
                   h.SourceAddr.Port, h.DestinationAddr.Port)

\* binary.BigEndian.PutUint16 of uint16(v)
PutUint16(v) == <<(v \div 256) % 256, v % 256>>

\* Header.IPs, Header.Ports and Header.UnixAddrs: the addresses must be of
\* the kind of the transport.
AddrKind(tp) ==
    IF IsUnix(tp) THEN IF IsDatagram(tp) THEN "unixgram" ELSE "unix"
    ELSE IF IsStream(tp) THEN "tcp"
    ELSE IF IsDatagram(tp) THEN "udp"
    ELSE "none"

HeaderAddrsOk(h) ==
    /\ h.SourceAddr.Net = AddrKind(h.TransportProtocol)
    /\ h.DestinationAddr.Net = AddrKind(h.TransportProtocol)

HeaderPorts(h) ==
    IF HeaderAddrsOk(h) /\ ~IsUnix(h.TransportProtocol)
    THEN PutUint16(h.SourceAddr.Port) \o PutUint16(h.DestinationAddr.Port)
    ELSE <<>>

\* formatUnixNameZeroCopy: 108 bytes, the name cut or padded with NUL.
formatUnixNameZeroCopy(name) == Take(name, 108) \o Zeros(108 - Min(Len(name), 108))

\* One of the three address branches of formatVersion2 from the length on.
V2Block(prefix, baseLength, addrSrc, addrDst, ports, tlvs) ==
    IF Len(tlvs) > 0 /\ baseLength + Len(tlvs) > 65535 THEN FormatFails("errUint16Overflow")
    ELSE IF addrSrc = <<>> \/ addrDst = <<>> THEN FormatFails("ErrInvalidAddress")
    ELSE Formatted(prefix \o PutUint16(baseLength + Len(tlvs)) \o addrSrc \o addrDst
                   \o ports \o tlvs)

V2From(h, tp, prefix, ok) ==
    IF IsIPv4(tp)
    THEN V2Block(prefix, lengthV4, IF ok THEN To4(h.SourceAddr.IP) ELSE <<>>,
                 IF ok THEN To4(h.DestinationAddr.IP) ELSE <<>>, HeaderPorts(h), h.rawTLVs)
    ELSE IF IsIPv6(tp)
    THEN V2Block(prefix, lengthV6, IF ok THEN To16(h.SourceAddr.IP) ELSE <<>>,
                 IF ok THEN To16(h.DestinationAddr.IP) ELSE <<>>, HeaderPorts(h), h.rawTLVs)
    ELSE IF IsUnix(tp)
    THEN IF ~ok THEN FormatFails("ErrInvalidAddress")
         ELSE V2Block(prefix, lengthUnix, formatUnixNameZeroCopy(h.SourceAddr.Name),
                      formatUnixNameZeroCopy(h.DestinationAddr.Name), HeaderPorts(h),
                      h.rawTLVs)
    ELSE Formatted(prefix \o PutUint16(Len(h.rawTLVs)) \o h.rawTLVs)

\* Header.formatVersion2, as far as its return statement.
formatVersion2(h) ==
    V2From(h, h.TransportProtocol, SIGV2 \o <<h.Command, h.TransportProtocol>>,
           HeaderAddrsOk(h))

\* formatVersion2 hands its two Unix name buffers back through
\* putUnixAddrSlice, which makes a slice header out of the address of a
\* pointer: length and capacity are whatever lies behind that pointer. The
\* call clears that many bytes, so it returns or it faults.
PutUnixOutcomes(h) ==
    IF IsUnix(h.TransportProtocol) /\ HeaderAddrsOk(h)
    THEN {"returns", "faults"}
    ELSE {"returns"}

\* ------------------------------------------------------------------------
\* Type-Length-Value vectors.
\* ------------------------------------------------------------------------

PP2_TYPE_NOOP == 4

\* What SplitTLVs returns.
NoTLVs(e) == [err |-> e, tlvs |-> <<>>]

\* The loop of SplitTLVs with i bytes of raw taken and the TLVs found so far:
\* the type, the big-endian length, then the value, which is kept unless the
\* type is NOOP.
RECURSIVE SplitLoop(_, _, _)
SplitLoop(raw, i, tlvs) ==
    IF i >= Len(raw) THEN [err |-> "nil", tlvs |-> tlvs]
    ELSE IF Len(raw) - i < 3 THEN NoTLVs("ErrTruncatedTLV")
    ELSE IF i + 3 + BE16(raw[i + 2], raw[i + 3]) > Len(raw) THEN NoTLVs("ErrTruncatedTLV")
    ELSE SplitLoop(raw, i + 3 + BE16(raw[i + 2], raw[i + 3]),
                   IF raw[i + 1] # PP2_TYPE_NOOP
                   THEN Append(tlvs, [Type |-> raw[i + 1],
                                      Value |-> SubSeq(raw, i + 4,
                                                       i + 3 + BE16(raw[i + 2], raw[i + 3]))])
                   ELSE tlvs)

\* SplitTLVs without the test for the three bytes of type and length when
\* fewer than three bytes are given.
SplitTLVsShortIsEmpty(raw) == IF Len(raw) < 3 THEN NoTLVs("nil") ELSE SplitLoop(raw, 0, <<>>)

\* SplitTLVs
SplitTLVs(raw) == IF raw = <<>> THEN NoTLVs("nil") ELSE SplitLoop(raw, 0, <<>>)

\* The second loop of JoinTLVs: per TLV the type, the two bytes of the
\* length of the value, the value.
RECURSIVE JoinRaw(_)
JoinRaw(tlvs) ==
    IF tlvs = <<>> THEN <<>>
    ELSE <<Head(tlvs).Type, (Len(Head(tlvs).Value) \div 256) % 256,
           Len(Head(tlvs).Value) % 256>> \o Head(tlvs).Value \o JoinRaw(Tail(tlvs))

\* JoinTLVs with the TLVs whose value is empty left out.
JoinTLVsSkipsEmpty(tlvs) == Formatted(JoinRaw(SelectSeq(tlvs, LAMBDA t : t.Value # <<>>)))

\* JoinTLVs: the error for a value over 65535 bytes is made with fmt.Errorf.
JoinTLVs(tlvs) ==
    IF \E i \in 1..Len(tlvs) : Len(tlvs[i].Value) > 65535
    THEN FormatFails("proxyproto: cannot format TLV")
    ELSE Formatted(JoinRaw(tlvs))

\* ------------------------------------------------------------------------
\* The classifier, Read(reader): a peek decides between v1, v2 and no header.
\* ------------------------------------------------------------------------

\* What the classifier answers when a peek of the signature comes up short:
\* it blocks, or end of stream means there is no header, or the error of the
\* read (a timeout) is passed on.
PeekShort(ioerr) ==
    IF ioerr = "none" THEN Need
    ELSE IF ioerr = "eof" THEN Fail("ErrNoProxyProtocol", 0)
    ELSE Fail(ioerr, 0)

Read(buffered, ioerr) ==
    IF Len(buffered) < 1 THEN PeekShort(ioerr)
    ELSE IF buffered[1] = SIGV1[1]
    THEN IF Len(buffered) < 6 THEN PeekShort(ioerr)
         ELSE IF Take(buffered, 6) = SIGV1 \o <<separator>>
              THEN parseVersion1(buffered, ioerr)
              ELSE Fail("ErrNoProxyProtocol", 0)
    ELSE IF buffered[1] = SIGV2[1]
    THEN IF Len(buffered) < 12 THEN PeekShort(ioerr)
         ELSE IF Take(buffered, 12) = SIGV2
              THEN parseVersion2(buffered, ioerr)
              ELSE Fail("ErrNoProxyProtocol", 0)
    ELSE Fail("ErrNoProxyProtocol", 0)

\* ------------------------------------------------------------------------
\* The interception wrapper, Conn, over one accepted connection.
\* ------------------------------------------------------------------------

\* The addresses of the underlying socket, conn.LocalAddr() and
\* conn.RemoteAddr().
ConnLocalAddr == TCPAddr(<<127, 0, 0, 1>>, 8080)

ConnRemoteAddr == TCPAddr(<<127, 0, 0, 1>>, 40000)

Policies == {"USE", "IGNORE", "REJECT", "REQUIRE", "SKIP"}

HELO == <<72, 69, 76, 79>>

V1Line ==
    <<80, 82, 79, 88, 89, 32, 84, 67, 80, 52, 32, 49, 46, 49, 46, 49, 46, 49, 32,
      50, 46, 50, 46, 50, 46, 50, 32, 55, 32, 56, 13, 10>>

V1Unknown == <<80, 82, 79, 88, 89, 32, 85, 78, 75, 78, 79, 87, 78, 13, 10>>

V2Proxy ==
    SIGV2 \o <<33, 17, 0, 12, 10, 0, 0, 1, 192, 168, 0, 1, 4, 210, 0, 80>>

V2Local == SIGV2 \o <<32, 0, 0, 0>>

\* The streams a peer sends: what the stream holds (hlen bytes of header, of
\* command cmd, carrying src and dst, then the payload) is stated here, apart
\* from the parsers; cuts are the places where the peer may end a segment.
Scenarios ==
    << [kind |-> "v1", stream |-> V1Line \o HELO, hlen |-> 32, cmd |-> CmdPROXY,
        src |-> TCPAddr(<<1, 1, 1, 1>>, 7), dst |-> TCPAddr(<<2, 2, 2, 2>>, 8),
        cuts |-> {20, 32, 36}],
       [kind |-> "v2", stream |-> V2Proxy \o HELO, hlen |-> 28, cmd |-> CmdPROXY,
        src |-> TCPAddr(<<10, 0, 0, 1>>, 1234), dst |-> TCPAddr(<<192, 168, 0, 1>>, 80),
        cuts |-> {12, 20, 28, 32}],
       [kind |-> "v1", stream |-> V1Unknown \o HELO, hlen |-> 15, cmd |-> CmdLOCAL,
        src |-> NilAddr, dst |-> NilAddr, cuts |-> {15, 19}],
       [kind |-> "v2", stream |-> V2Local \o HELO, hlen |-> 16, cmd |-> CmdLOCAL,
        src |-> NilAddr, dst |-> NilAddr, cuts |-> {12, 16, 20}],
       [kind |-> "plain", stream |-> <<71, 69, 84, 32, 47>>, hlen |-> 0, cmd |-> 0,
        src |-> NilAddr, dst |-> NilAddr, cuts |-> {2, 5}],
       [kind |-> "plain", stream |-> <<80, 73, 78, 71>>, hlen |-> 0, cmd |-> 0,
        src |-> NilAddr, dst |-> NilAddr, cuts |-> {2, 4}] >>

\* The total number of calls made on the wrapper.
MaxCalls == 2

Procs == {"g1", "g2"}

Ops == {"Read", "ProxyHeader", "LocalAddr", "RemoteAddr"}

\* The deadlines handed to SetReadDeadline.
Deadlines == {"d1"}

\* The lengths of the slices handed to Read.
ReadSizes == {2, 4096}

VARIABLES
    scn,                \* the scenario: an index of Scenarios
    ProxyHeaderPolicy,  \* Conn.ProxyHeaderPolicy
    readHeaderTimeout,  \* Conn.readHeaderTimeout: 0, or a positive duration
    Validate,           \* Conn.Validate: "nil", or what the validator answers
    sent,               \* the number of bytes of the stream the peer has sent
    socket,             \* the bytes received by the socket and not yet read
    peerClosed,         \* the peer has closed its side after the last byte
    connDeadline,       \* the read deadline of the underlying connection
    readDeadline,       \* Conn.readDeadline: "unset" or the stored deadline
    once,               \* Conn.once: "fresh", "running" or "done"
    readErr,            \* Conn.readErr
    header,             \* Conn.header
    bufReader,          \* the bytes buffered in Conn.bufReader
    reader,             \* Conn.reader: "multi" (MultiReader(br, conn)) or "conn"
    pc,                 \* per goroutine: "idle", "once" (in once.Do), "hdr" (in readHeader)
    op,                 \* per goroutine: the method it is in
    origDeadline,       \* readHeader's local origDeadline
    ret,                \* what the last call to return has returned
    delivered,          \* the bytes the Read calls have returned, in order
    hdrReads,           \* how many times readHeader has been entered
    hdrIO,              \* readHeader has made a read of the connection
    hdrEnd,             \* what ended the header read's last read of the connection
    hdrSeen,            \* the bytes the reader had buffered when the header read ended
    calls,              \* the number of calls made
    setBefore,          \* the deadline the caller last set before the header read began
    validated,          \* how many times the validator has been called
    written,            \* the lengths of the slices passed to conn.Write, in order
    writeDeadline,      \* the write deadline of the underlying connection
    hasBufReader,       \* Conn.bufReader is not nil
    pool,               \* the readers this wrapper has put into readerPool
    connClosed,         \* the number of calls of conn.Close
    listener,           \* the Listener's fields
    accept,             \* Listener.Accept: its position, the connections, its result
    codec,              \* a header, its formatted bytes and what parsing them gives
    copied,             \* the bytes WriteTo has written to its destination, in order
    fwd                 \* a zero-copy forwarder, its source and its destination

vars ==
    <<scn, ProxyHeaderPolicy, readHeaderTimeout, Validate, sent, socket,
      peerClosed, connDeadline, readDeadline, once, readErr, header, bufReader,
      reader, pc, op, origDeadline, ret, delivered, hdrReads, hdrIO, hdrEnd,
      hdrSeen, calls, setBefore, validated, written, writeDeadline, hasBufReader,
      pool, connClosed, listener, accept, codec, copied, fwd>>

config == <<scn, ProxyHeaderPolicy, readHeaderTimeout, Validate>>

network == <<sent, socket, peerClosed>>

wrapper == <<once, readErr, header, bufReader, reader>>

ghosts == <<hdrReads, hdrIO, hdrEnd, hdrSeen, setBefore, validated>>

io == <<written, writeDeadline, hasBufReader, pool, connClosed>>

outside == <<listener, accept, codec, copied, fwd>>

Stream == Scenarios[scn].stream

\* A wrapper made by NewConn, without a Listener.
NoListener == [Policy |-> "nil", ValidateHeader |-> "nil", ReadHeaderTimeout |-> 0]

NoAccept ==
    [pc |-> "off", conns |-> 0, closed |-> {}, answer |-> [policy |-> "USE", err |-> "nil"],
     ret |-> [kind |-> "none", conn |-> 0, policy |-> "none", err |-> "nil"]]

NoCodec == [step |-> "off"]

NoForward == [pc |-> "off"]

\* There is a wrapper: NewConn has been called, by the program or by Accept.
Wrapped == accept.pc = "off" \/ accept.ret.kind = "wrapper"

NoRet ==
    [op |-> "none", n |-> 0, err |-> "nil", hdr |-> NilHeader, addr |-> NilAddr,
     latched |-> TRUE, seenHdr |-> NilHeader, seenErr |-> "nil", arg |-> 0]

\* NewConn: the reader is MultiReader(bufReader, conn); nothing is read yet.
Init ==
    /\ scn \in 1..Len(Scenarios)
    /\ ProxyHeaderPolicy \in Policies
    /\ readHeaderTimeout \in {0, 10}
    /\ Validate \in {"nil", "reject"}
    /\ sent = 0 /\ socket = <<>> /\ peerClosed = FALSE
    /\ connDeadline = "none" /\ readDeadline = "unset"
    /\ once = "fresh" /\ readErr = "nil" /\ header = NilHeader
    /\ bufReader = <<>> /\ reader = "multi"
    /\ pc = [p \in Procs |-> "idle"]
    /\ op = [p \in Procs |-> "none"]
    /\ origDeadline = "none"
    /\ ret = NoRet
    /\ delivered = <<>>
    /\ hdrReads = 0 /\ hdrIO = FALSE /\ hdrEnd = "running" /\ hdrSeen = 0
    /\ calls = 0
    /\ setBefore = "none" /\ validated = 0
    /\ written = <<>> /\ writeDeadline = "none"
    /\ hasBufReader = TRUE /\ pool = <<>> /\ connClosed = 0
    /\ listener = NoListener /\ accept = NoAccept /\ codec = NoCodec
    /\ copied = <<>> /\ fwd = NoForward

\* ---- the peer

\* The peer sends the bytes up to cut c as one segment.
Arrive(c) ==
    /\ c \in Scenarios[scn].cuts /\ c > sent
    /\ socket' = socket \o SubSeq(Stream, sent + 1, c)
    /\ sent' = c
    /\ UNCHANGED <<config, io, outside, peerClosed, connDeadline, readDeadline, wrapper, pc, op,
                   origDeadline, ret, delivered, ghosts, calls>>

\* The peer closes its side once it has sent everything.
PeerClose ==
    /\ sent = Len(Stream) /\ ~peerClosed
    /\ peerClosed' = TRUE
    /\ UNCHANGED <<config, io, outside, sent, socket, connDeadline, readDeadline, wrapper,
                   pc, op, origDeadline, ret, delivered, ghosts, calls>>

\* ---- sync.Once

\* once.Do(f) runs f in the caller that finds the Once fresh.
OnceRunsUnlessDone(o) == o # "done"

OnceRuns(o) == o = "fresh"

\* once.Do(f) returns only when f has returned.
OnceReturns(o) == o = "done"

\* ---- readHeader

\* A read timeout while a header-read timeout is configured is translated
\* to ErrNoProxyProtocol.
TranslateTimeoutNever(timeout, err) == err

TranslateTimeout(timeout, err) ==
    IF timeout > 0 /\ err = "timeout" THEN "ErrNoProxyProtocol" ELSE err

\* ErrNoProxyProtocol is an error under REQUIRE only.
TolerateNever(policy, err) == err

Tolerate(policy, err) == IF policy = "REQUIRE" THEN err ELSE "nil"

\* The switch on the policy for a header that was read: the error returned
\* and the header stored.
ApplyPolicyNoReject(policy, validate, hdr, parsed) ==
    IF policy \in {"USE", "REQUIRE"}
    THEN IF validate = "reject"
         THEN [err |-> "validateErr", header |-> hdr]
         ELSE [err |-> "nil", header |-> parsed]
    ELSE [err |-> "nil", header |-> hdr]

ApplyPolicyIgnoreStores(policy, validate, hdr, parsed) ==
    IF policy = "REJECT"
    THEN [err |-> "ErrSuperfluousProxyHeader", header |-> hdr]
    ELSE IF policy \in {"USE", "REQUIRE", "IGNORE"}
    THEN IF validate = "reject"
         THEN [err |-> "validateErr", header |-> hdr]
         ELSE [err |-> "nil", header |-> parsed]
    ELSE [err |-> "nil", header |-> hdr]

ApplyPolicyStoresRejected(policy, validate, hdr, parsed) ==
    IF policy = "REJECT"
    THEN [err |-> "ErrSuperfluousProxyHeader", header |-> hdr]
    ELSE IF policy \in {"USE", "REQUIRE"}
    THEN IF validate = "reject"
         THEN [err |-> "validateErr", header |-> parsed]
         ELSE [err |-> "nil", header |-> parsed]
    ELSE [err |-> "nil", header |-> hdr]

ApplyPolicy(policy, validate, hdr, parsed) ==
    IF policy = "REJECT"
    THEN [err |-> "ErrSuperfluousProxyHeader", header |-> hdr]
    ELSE IF policy \in {"USE", "REQUIRE"}
    THEN IF validate = "reject"
         THEN [err |-> "validateErr", header |-> hdr]
         ELSE [err |-> "nil", header |-> parsed]
    ELSE [err |-> "nil", header |-> hdr]

\* readHeader from the reset of the deadline on, with err the classifier's
\* error after the translation and parsed its header: the error readHeader
\* returns and the header it stores.
Outcome(policy, validate, hdr, err, parsed) ==
    IF err = "ErrNoProxyProtocol" THEN [err |-> Tolerate(policy, err), header |-> hdr]
    ELSE IF err = "nil" /\ parsed # NilHeader THEN ApplyPolicy(policy, validate, hdr, parsed)
    ELSE [err |-> err, header |-> hdr]

readHeader(policy, timeout, validate, hdr, r) ==
    Outcome(policy, validate, hdr, TranslateTimeout(timeout, r.err), r.header)

\* The validator is called for a header that was read, under USE and REQUIRE,
\* when one is configured: the number of its calls.
ValidatorCalls(policy, validate, err, parsed) ==
    IF err = "nil" /\ parsed # NilHeader /\ policy \in {"USE", "REQUIRE"} /\ validate # "nil"
    THEN 1 ELSE 0

\* With a header-read timeout, readHeader sets the read deadline of the
\* connection back to the one it saved, whatever the classifier returned.
RestoreOnSuccess(timeout, orig, cur, err) ==
    IF timeout > 0 /\ err = "nil" THEN orig ELSE cur

RestoreDeadline(timeout, orig, cur, err) == IF timeout > 0 THEN orig ELSE cur

\* Read's once function switches the reader to the connection itself when
\* nothing is left in the buffered reader.
BypassBufferAlways(buffered) == TRUE

BypassBuffer(buffered) == buffered = <<>>

\* A call of method o by goroutine p, up to once.Do (g2 is the goroutine that
\* calls while g1 is in a call; the calls made one after another are g1's): the caller that finds the
\* Once fresh enters readHeader, which saves the stored deadline and installs
\* the transient one.
Call(p, o) ==
    /\ Wrapped /\ connClosed = 0
    /\ pc[p] = "idle" /\ calls < MaxCalls
    /\ (p = "g2" => pc["g1"] # "idle")
    /\ (o = "Read" => \A q \in Procs : ~(pc[q] # "idle" /\ op[q] = "Read"))
    /\ calls' = calls + 1
    /\ op' = [op EXCEPT ![p] = o]
    /\ IF OnceRuns(once)
       THEN /\ once' = "running"
            /\ pc' = [pc EXCEPT ![p] = "hdr"]
            /\ hdrReads' = hdrReads + 1
            /\ IF readHeaderTimeout > 0
               THEN /\ origDeadline' =
                          IF readDeadline = "unset" THEN "none" ELSE readDeadline
                    /\ connDeadline' = "hdr"
               ELSE UNCHANGED <<origDeadline, connDeadline>>
       ELSE /\ pc' = [pc EXCEPT ![p] = "once"]
            /\ UNCHANGED <<once, hdrReads, origDeadline, connDeadline>>
    /\ UNCHANGED <<config, io, outside, network, readDeadline, readErr, header, bufReader, reader,
                   ret, delivered, hdrIO, hdrEnd, hdrSeen, setBefore, validated>>

\* The header read blocks in a read of the connection, which returns the
\* bytes the socket holds.
HdrFill(p) ==
    /\ pc[p] = "hdr" /\ Read(bufReader, "none").st = "need"
    /\ socket # <<>>
    /\ bufReader' = bufReader \o Take(socket, BufSize - Len(bufReader))
    /\ socket' = Drop(socket, BufSize - Len(bufReader))
    /\ hdrIO' = TRUE
    /\ UNCHANGED <<config, io, outside, sent, peerClosed, connDeadline, readDeadline, once,
                   readErr, header, reader, pc, op, origDeadline, ret, delivered,
                   hdrReads, hdrEnd, hdrSeen, calls, setBefore, validated>>

\* The classifier returns, with ioerr the outcome of the read it was blocked
\* in, if any (the header deadline, set a moment ago, expires only while the
\* read waits for bytes; a deadline of the caller may lie in the past);
\* readHeader resets the deadline and applies the policy, and the once
\* function ends.
HdrReturn(p, ioerr) ==
    LET r   == Read(bufReader, ioerr)
        out == readHeader(ProxyHeaderPolicy, readHeaderTimeout, Validate, header, r)
        buf == Drop(bufReader, r.n)
    IN  /\ pc[p] = "hdr"
        /\ \/ ioerr = "none" /\ r.st = "done"
           \/ /\ ioerr = "eof" /\ Read(bufReader, "none").st = "need"
              /\ socket = <<>> /\ peerClosed
           \/ /\ ioerr = "timeout" /\ Read(bufReader, "none").st = "need"
              /\ connDeadline # "none"
              /\ (connDeadline = "hdr" => socket = <<>>)
        /\ hdrIO' = (hdrIO \/ ioerr # "none")
        /\ hdrEnd' = IF ioerr # "timeout" THEN ioerr
                     ELSE IF connDeadline = "hdr" THEN "header deadline"
                     ELSE "caller deadline"
        /\ hdrSeen' = Len(bufReader)
        /\ connDeadline' = RestoreDeadline(readHeaderTimeout, origDeadline, connDeadline, r.err)
        /\ validated' = validated + ValidatorCalls(ProxyHeaderPolicy, Validate,
                                       TranslateTimeout(readHeaderTimeout, r.err), r.header)
        /\ readErr' = out.err
        /\ header' = out.header
        /\ bufReader' = buf
        /\ reader' = IF op[p] = "Read" /\ out.err = "nil" /\ BypassBuffer(buf)
                     THEN "conn" ELSE reader
        /\ once' = "done"
        /\ pc' = [pc EXCEPT ![p] = "once"]
        /\ UNCHANGED <<config, io, outside, network, readDeadline, op, origDeadline,
                       ret, delivered, hdrReads, calls, setBefore>>

\* ---- the methods, after once.Do has returned

Return(p, r) ==
    /\ ret' = [r EXCEPT !.latched = (once = "done"), !.seenHdr = header,
                        !.seenErr = readErr]
    /\ pc' = [pc EXCEPT ![p] = "idle"]
    /\ op' = [op EXCEPT ![p] = "none"]

\* ProxyHeader returns p.header.
ProxyHeader(p) ==
    /\ pc[p] = "once" /\ OnceReturns(once) /\ op[p] = "ProxyHeader"
    /\ Return(p, [NoRet EXCEPT !.op = "ProxyHeader", !.hdr = header])
    /\ UNCHANGED <<config, io, outside, network, connDeadline, readDeadline, wrapper,
                   origDeadline, delivered, ghosts, calls>>

\* The address LocalAddr or RemoteAddr returns: the header's, unless there is
\* no header, its command is LOCAL, or the header read failed.
AddrOfConn(hdr, err, fromHeader, fromConn) == fromConn

AddrOfNoLocal(hdr, err, fromHeader, fromConn) ==
    IF hdr = NilHeader \/ err # "nil" THEN fromConn ELSE fromHeader

AddrOf(hdr, err, fromHeader, fromConn) ==
    IF hdr = NilHeader \/ IsLocal(hdr.Command) \/ err # "nil" THEN fromConn ELSE fromHeader

LocalAddr(p) ==
    /\ pc[p] = "once" /\ OnceReturns(once) /\ op[p] = "LocalAddr"
    /\ Return(p, [NoRet EXCEPT !.op = "LocalAddr",
                     !.addr = AddrOf(header, readErr, header.DestinationAddr, ConnLocalAddr)])
    /\ UNCHANGED <<config, io, outside, network, connDeadline, readDeadline, wrapper,
                   origDeadline, delivered, ghosts, calls>>

RemoteAddr(p) ==
    /\ pc[p] = "once" /\ OnceReturns(once) /\ op[p] = "RemoteAddr"
    /\ Return(p, [NoRet EXCEPT !.op = "RemoteAddr",
                     !.addr = AddrOf(header, readErr, header.SourceAddr, ConnRemoteAddr)])
    /\ UNCHANGED <<config, io, outside, network, connDeadline, readDeadline, wrapper,
                   origDeadline, delivered, ghosts, calls>>

\* Read returns the stored error of a failed header read, and nothing else.
FailedNever(err) == FALSE

Failed(err) == err # "nil"

ReadFailed(p) ==
    /\ pc[p] = "once" /\ OnceReturns(once) /\ op[p] = "Read"
    /\ Failed(readErr)
    /\ Return(p, [NoRet EXCEPT !.op = "Read", !.err = readErr])
    /\ UNCHANGED <<config, io, outside, network, connDeadline, readDeadline, wrapper,
                   origDeadline, delivered, ghosts, calls>>

\* Read(b) with len(b) = k returns bytes: of the buffered reader when it holds
\* any (MultiReader reads it first); else of the connection, directly when b
\* is at least as large as the buffer or when the reader is the connection,
\* and through the buffer otherwise.
ReadData(p, k) ==
    LET fromBuf == reader = "multi" /\ bufReader # <<>>
        direct  == reader = "conn" \/ k >= BufSize
        filled  == Take(socket, BufSize)
        data    == IF fromBuf THEN Take(bufReader, k)
                   ELSE IF direct THEN Take(socket, k) ELSE Take(filled, k)
    IN  /\ pc[p] = "once" /\ OnceReturns(once) /\ op[p] = "Read"
        /\ ~Failed(readErr)
        /\ fromBuf \/ socket # <<>>
        /\ bufReader' = IF fromBuf THEN Drop(bufReader, k)
                        ELSE IF direct THEN bufReader ELSE Drop(filled, k)
        /\ socket' = IF fromBuf THEN socket
                     ELSE IF direct THEN Drop(socket, k) ELSE Drop(socket, BufSize)
        /\ delivered' = delivered \o data
        /\ Return(p, [NoRet EXCEPT !.op = "Read", !.n = Len(data)])
        /\ UNCHANGED <<config, io, outside, sent, peerClosed, connDeadline, readDeadline,
                       once, readErr, header, reader, origDeadline, ghosts, calls>>

\* Read finds nothing buffered and its read of the connection fails: with
\* io.EOF after the peer has closed, or with a timeout at the read deadline.
ReadEnds(p, ioerr) ==
    /\ pc[p] = "once" /\ OnceReturns(once) /\ op[p] = "Read"
    /\ ~Failed(readErr)
    /\ ~(reader = "multi" /\ bufReader # <<>>)
    /\ \/ ioerr = "EOF" /\ socket = <<>> /\ peerClosed
       \/ ioerr = "timeout" /\ connDeadline # "none"
    /\ Return(p, [NoRet EXCEPT !.op = "Read", !.err = ioerr])
    /\ UNCHANGED <<config, io, outside, network, connDeadline, readDeadline, wrapper,
                   origDeadline, delivered, ghosts, calls>>

\* ---- the methods that do not read the header

\* A call that goes to the connection without entering once.Do: by g1 when it
\* is in no call, by g2 while g1 is in one.
Delegates(p) ==
    /\ Wrapped /\ connClosed = 0
    /\ pc[p] = "idle" /\ calls < MaxCalls
    /\ (p = "g2" => pc["g1"] # "idle")
    /\ calls' = calls + 1

\* The deadline the caller has set before the header read began.
SetBefore(t) == IF once = "fresh" THEN t ELSE setBefore

\* SetReadDeadline stores the deadline and passes it to the connection.
SetReadDeadline(p, t) ==
    /\ Delegates(p)
    /\ readDeadline' = t
    /\ connDeadline' = t
    /\ setBefore' = SetBefore(t)
    /\ ret' = [NoRet EXCEPT !.op = "SetReadDeadline", !.arg = t]
    /\ UNCHANGED <<config, io, outside, network, wrapper, pc, op, origDeadline,
                   delivered, hdrReads, hdrIO, hdrEnd, hdrSeen, validated>>

\* SetDeadline stores the deadline and passes it to the connection, which
\* makes it its read deadline and its write deadline.
SetDeadline(p, t) ==
    /\ Delegates(p)
    /\ readDeadline' = t
    /\ connDeadline' = t
    /\ writeDeadline' = t
    /\ setBefore' = SetBefore(t)
    /\ ret' = [NoRet EXCEPT !.op = "SetDeadline", !.arg = t]
    /\ UNCHANGED <<config, written, hasBufReader, pool, connClosed, outside, network,
                   wrapper, pc, op, origDeadline, delivered, hdrReads, hdrIO, hdrEnd,
                   hdrSeen, validated>>

\* SetWriteDeadline passes the deadline to the connection.
SetWriteDeadline(p, t) ==
    /\ Delegates(p)
    /\ writeDeadline' = t
    /\ ret' = [NoRet EXCEPT !.op = "SetWriteDeadline", !.arg = t]
    /\ UNCHANGED <<config, written, hasBufReader, pool, connClosed, outside, network,
                   connDeadline, readDeadline, wrapper, pc, op, origDeadline,
                   delivered, ghosts>>

\* conn.Write(b) with len(b) = k: the connection takes the whole slice.
ConnWriteShort(w, k) == Append(w, Min(k, BufSize - 1))

ConnWrite(w, k) == Append(w, k)

\* Write passes b to the connection, on the path for small slices and on the
\* one for large slices alike, and returns what the connection returns.
Write(p, k) ==
    /\ Delegates(p)
    /\ written' = ConnWrite(written, k)
    /\ ret' = [NoRet EXCEPT !.op = "Write", !.n = k, !.arg = k]
    /\ UNCHANGED <<config, writeDeadline, hasBufReader, pool, connClosed, outside,
                   network, connDeadline, readDeadline, wrapper, pc, op, origDeadline,
                   delivered, ghosts>>

\* putReader resets the reader, which drops its source and what it had
\* buffered, and puts it into the pool.
putReader(br) == [buffered |-> <<>>, source |-> "nil"]

\* Close puts the reader back when the wrapper still holds one.
PutsReaderAlways(has) == TRUE

PutsReader(has) == has

\* Close, called while no other call is in progress: the reader goes back to
\* the pool, the wrapper forgets it, and the connection is closed (a
\* connection closed before answers with an error).
Close ==
    /\ Wrapped
    /\ \A q \in Procs : pc[q] = "idle"
    /\ calls < MaxCalls
    /\ calls' = calls + 1
    /\ pool' = IF PutsReader(hasBufReader) THEN Append(pool, putReader(bufReader)) ELSE pool
    /\ hasBufReader' = FALSE
    /\ bufReader' = <<>>
    /\ reader' = "nil"
    /\ connClosed' = connClosed + 1
    /\ ret' = [NoRet EXCEPT !.op = "Close",
                            !.err = IF connClosed > 0 THEN "closed" ELSE "nil"]
    /\ UNCHANGED <<config, written, writeDeadline, outside, network, connDeadline,
                   readDeadline, once, readErr, header, pc, op, origDeadline,
                   delivered, ghosts>>

\* The lengths of the slices handed to Write.
WriteSizes == {1, 4096}

Next ==
    \/ \E c \in 1..40 : Arrive(c)
    \/ PeerClose
    \/ \E p \in Procs, o \in Ops : Call(p, o)
    \/ \E p \in Procs : HdrFill(p)
    \/ \E p \in Procs, e \in {"none", "eof", "timeout"} : HdrReturn(p, e)
    \/ \E p \in Procs : ProxyHeader(p)
    \/ \E p \in Procs : LocalAddr(p)
    \/ \E p \in Procs : RemoteAddr(p)
    \/ \E p \in Procs : ReadFailed(p)
    \/ \E p \in Procs, k \in ReadSizes : ReadData(p, k)
    \/ \E p \in Procs, e \in {"EOF", "timeout"} : ReadEnds(p, e)
    \/ \E p \in Procs, t \in Deadlines : SetReadDeadline(p, t)
    \/ \E p \in Procs, t \in Deadlines : SetDeadline(p, t)
    \/ \E p \in Procs, t \in Deadlines : SetWriteDeadline(p, t)
    \/ \E p \in Procs, k \in WriteSizes : Write(p, k)
    \/ Close

Spec == Init /\ [][Next]_vars

\* ------------------------------------------------------------------------
\* Conn.WriteTo, the method io.Copy calls when the wrapper is its source.
\* ------------------------------------------------------------------------

\* WriteTo hands the connection itself, p.conn, to ZeroCopy or to io.Copy as
\* the source; it does not enter once.Do.
WriteTo(p) ==
    /\ Wrapped /\ connClosed = 0
    /\ pc[p] = "idle" /\ calls < MaxCalls
    /\ calls' = calls + 1
    /\ pc' = [pc EXCEPT ![p] = "copy"]
    /\ op' = [op EXCEPT ![p] = "WriteTo"]
    /\ UNCHANGED <<config, io, outside, network, connDeadline, readDeadline, wrapper,
                   origDeadline, ret, delivered, ghosts>>

\* The copy reads what the socket of the connection holds and writes it to
\* the destination.
CopyChunk(p) ==
    /\ pc[p] = "copy" /\ socket # <<>>
    /\ copied' = copied \o socket
    /\ socket' = <<>>
    /\ UNCHANGED <<config, io, listener, accept, codec, fwd, sent, peerClosed, connDeadline,
                   readDeadline, wrapper, pc, op, origDeadline, ret, delivered, ghosts,
                   calls>>

\* The copy ends at the end of the stream, and WriteTo returns the number of
\* bytes copied and no error.
CopyEnds(p) ==
    /\ pc[p] = "copy" /\ socket = <<>> /\ peerClosed
    /\ Return(p, [NoRet EXCEPT !.op = "WriteTo", !.n = Len(copied)])
    /\ UNCHANGED <<config, io, outside, network, connDeadline, readDeadline, wrapper,
                   origDeadline, delivered, ghosts, calls>>

\* A wrapper made by NewConn with its defaults, over a stream that starts
\* with a header.
InitCopy ==
    /\ Init
    /\ Scenarios[scn].hlen > 0
    /\ ProxyHeaderPolicy = "USE" /\ readHeaderTimeout = 0 /\ Validate = "nil"

NextCopy ==
    \/ \E c \in 1..40 : Arrive(c)
    \/ PeerClose
    \/ \E o \in Ops : Call("g1", o)
    \/ HdrFill("g1")
    \/ \E e \in {"none", "eof"} : HdrReturn("g1", e)
    \/ ProxyHeader("g1")
    \/ LocalAddr("g1")
    \/ RemoteAddr("g1")
    \/ \E k \in ReadSizes : ReadData("g1", k)
    \/ ReadEnds("g1", "EOF")
    \/ WriteTo("g1")
    \/ CopyChunk("g1")
    \/ CopyEnds("g1")

SpecCopy == InitCopy /\ [][NextCopy]_vars

\* ------------------------------------------------------------------------
\* readerPool: Close while a call of another goroutine is in progress, and
\* NewConn for another connection. Close takes no lock and the calls hold
\* none, so a header read or a Read that is inside the buffered reader when
\* Close hands the reader back goes on with a reader it no longer owns.
\* ------------------------------------------------------------------------

\* Close by goroutine p while the other goroutine is in a call: as Close, the
\* reader goes to the pool, the wrapper forgets it, the connection is closed.
CloseWhile(p) ==
    /\ Wrapped /\ connClosed = 0
    /\ pc[p] = "idle" /\ \E q \in Procs : pc[q] # "idle"
    /\ calls < MaxCalls
    /\ calls' = calls + 1
    /\ pool' = IF PutsReader(hasBufReader) THEN Append(pool, putReader(bufReader)) ELSE pool
    /\ hasBufReader' = FALSE
    /\ bufReader' = <<>>
    /\ reader' = "nil"
    /\ connClosed' = connClosed + 1
    /\ ret' = [NoRet EXCEPT !.op = "Close"]
    /\ UNCHANGED <<config, written, writeDeadline, outside, network, connDeadline,
                   readDeadline, once, readErr, header, pc, op, origDeadline,
                   delivered, ghosts>>

\* NewConn for another connection: getReader takes a reader out of the pool
\* and resets it onto that connection.
getReader(br, r) == [br EXCEPT !.source = r]

NewConnOther ==
    /\ pool # <<>> /\ pool[Len(pool)].source = "nil"
    /\ pool' = [pool EXCEPT ![Len(pool)] = getReader(@, "conn2")]
    /\ UNCHANGED <<config, written, writeDeadline, hasBufReader, connClosed, outside,
                   network, connDeadline, readDeadline, wrapper, pc, op, origDeadline,
                   ret, delivered, ghosts, calls>>

\* The fill of the header read or of a Read of goroutine p, begun before
\* Close: its read of the connection has returned the bytes of the socket,
\* and the fill now counts them into the reader, which is in the pool or is
\* the reader of the other connection.
LateFill(p) ==
    /\ pc[p] \in {"hdr", "once"} /\ op[p] \in {"Read", "ProxyHeader", "LocalAddr", "RemoteAddr"}
    /\ (pc[p] = "once" => op[p] = "Read" /\ reader = "nil")
    /\ connClosed > 0 /\ pool # <<>>
    /\ socket # <<>>
    /\ pool' = [pool EXCEPT ![Len(pool)].buffered = @ \o socket]
    /\ socket' = <<>>
    /\ UNCHANGED <<config, written, writeDeadline, hasBufReader, connClosed, outside,
                   sent, peerClosed, connDeadline, readDeadline, wrapper, pc, op,
                   origDeadline, ret, delivered, ghosts, calls>>

\* The call that was in progress when the wrapper was closed returns: its
\* read of the closed connection has failed.
ReturnsClosed(p) ==
    /\ pc[p] \in {"hdr", "once"} /\ connClosed > 0
    /\ once' = "done"
    /\ readErr' = IF pc[p] = "hdr" THEN "closed" ELSE readErr
    /\ Return(p, [NoRet EXCEPT !.op = op[p], !.err = "closed"])
    /\ UNCHANGED <<config, io, outside, network, connDeadline, readDeadline, header,
                   bufReader, reader, origDeadline, delivered, ghosts, calls>>

\* A wrapper made by NewConn with its defaults.
InitPool ==
    /\ Init
    /\ scn \in {2, 5}
    /\ ProxyHeaderPolicy = "USE" /\ readHeaderTimeout = 0 /\ Validate = "nil"

NextPool ==
    \/ \E c \in 1..40 : Arrive(c)
    \/ PeerClose
    \/ \E o \in Ops : Call("g1", o)
    \/ connClosed = 0 /\ HdrFill("g1")
    \/ connClosed = 0 /\ \E e \in {"none", "eof"} : HdrReturn("g1", e)
    \/ connClosed = 0 /\ ProxyHeader("g1")
    \/ connClosed = 0 /\ LocalAddr("g1")
    \/ connClosed = 0 /\ RemoteAddr("g1")
    \/ connClosed = 0 /\ \E k \in ReadSizes : ReadData("g1", k)
    \/ connClosed = 0 /\ ReadEnds("g1", "EOF")
    \/ Close
    \/ CloseWhile("g2")
    \/ NewConnOther
    \/ LateFill("g1")
    \/ ReturnsClosed("g1")

SpecPool == InitPool /\ [][NextPool]_vars

\* ------------------------------------------------------------------------
\* Listener.Accept, and the use of the connection it returns by one caller.
\* ------------------------------------------------------------------------

\* The number of connections the underlying listener hands out.
MaxConns == 2

\* Durations are in seconds.
DefaultReadHeaderTimeout == 10

\* What a policy function answers for a connection.
PolicyErrors == {"ErrInvalidUpstream", "wrapped ErrInvalidUpstream", "policy error"}

PolicyAnswers ==
    {[policy |-> q, err |-> "nil"] : q \in Policies}
        \cup {[policy |-> "USE", err |-> e] : e \in PolicyErrors}

\* errors.Is(policyErr, ErrInvalidUpstream)
IsInvalidUpstreamNever(err) == FALSE

IsInvalidUpstream(err) == err \in {"ErrInvalidUpstream", "wrapped ErrInvalidUpstream"}

\* A connection whose policy is SKIP is returned as it is.
ReturnsRawNever(policy) == FALSE

ReturnsRaw(policy) == policy = "SKIP"

\* The header-read timeout of the wrapper: the default when the listener's
\* is zero.
HeaderTimeoutAsGiven(t) == t

HeaderTimeoutOf(t) == IF t = 0 THEN DefaultReadHeaderTimeout ELSE t

\* The streams of the connections the listener hands out: a v2 header with
\* payload, and a stream without header.
AcceptScenarios == {2, 5}

\* The listener is set up, Accept has been called and waits in
\* Listener.Accept; the wrapper's fields are those of a Conn not yet made.
InitAccept ==
    /\ scn \in AcceptScenarios
    /\ listener \in [Policy : {"nil", "Policy", "ConnPolicy", "both"},
                      ValidateHeader : {"nil", "reject"},
                      ReadHeaderTimeout : {-1, 0, 7}]
    /\ accept = [NoAccept EXCEPT !.pc = "accept"]
    /\ ProxyHeaderPolicy = "USE" /\ readHeaderTimeout = 0 /\ Validate = "nil"
    /\ sent = 0 /\ socket = <<>> /\ peerClosed = FALSE
    /\ connDeadline = "none" /\ readDeadline = "unset"
    /\ once = "fresh" /\ readErr = "nil" /\ header = NilHeader
    /\ bufReader = <<>> /\ reader = "multi"
    /\ pc = [p \in Procs |-> "idle"]
    /\ op = [p \in Procs |-> "none"]
    /\ origDeadline = "none"
    /\ ret = NoRet
    /\ delivered = <<>>
    /\ hdrReads = 0 /\ hdrIO = FALSE /\ hdrEnd = "running" /\ hdrSeen = 0
    /\ calls = 0
    /\ setBefore = "none" /\ validated = 0
    /\ written = <<>> /\ writeDeadline = "none"
    /\ hasBufReader = TRUE /\ pool = <<>> /\ connClosed = 0
    /\ codec = NoCodec
    /\ copied = <<>> /\ fwd = NoForward

\* p.Listener.Accept() returns the next connection, or an error, which
\* Accept returns.
ListenerAccept(e) ==
    /\ accept.pc = "accept"
    /\ \/ /\ e = "conn" /\ accept.conns < MaxConns
          /\ accept' = [accept EXCEPT !.pc = "policy", !.conns = @ + 1]
       \/ /\ e = "error"
          /\ accept' = [accept EXCEPT !.pc = "returned",
                            !.ret = [kind |-> "error", conn |-> 0, policy |-> "none",
                                     err |-> "listener error"]]
    /\ UNCHANGED <<config, io, network, connDeadline, readDeadline, wrapper, pc, op,
                   origDeadline, ret, delivered, ghosts, calls, listener, codec, copied,
                   fwd>>

\* NewConn with the options Accept passes, and the timeout Accept assigns:
\* the fields of the wrapper.
AcceptWraps(a) ==
    /\ ProxyHeaderPolicy' = a.policy
    /\ Validate' = IF listener.ValidateHeader # "nil" THEN listener.ValidateHeader
                   ELSE Validate
    /\ readHeaderTimeout' = HeaderTimeoutOf(listener.ReadHeaderTimeout)
    /\ accept' = [accept EXCEPT !.pc = "returned", !.answer = a,
                      !.ret = [kind |-> "wrapper", conn |-> accept.conns,
                               policy |-> a.policy, err |-> "nil"]]
    /\ UNCHANGED <<scn, network>>

\* The rest of one round of Accept's loop, for the connection just accepted,
\* with a the answer of the policy function if one is configured.
AcceptPolicy(a) ==
    /\ accept.pc = "policy"
    /\ IF listener.Policy = "both"
       THEN /\ accept' = [accept EXCEPT !.pc = "panicked"]
            /\ UNCHANGED <<config, network>>
       ELSE IF listener.Policy = "nil"
       THEN AcceptWraps([policy |-> "USE", err |-> "nil"])
       ELSE IF a.err # "nil"
       THEN IF IsInvalidUpstream(a.err)
            THEN /\ accept' = [accept EXCEPT !.pc = "accept",
                                   !.closed = @ \cup {accept.conns},
                                   !.answer = a]
                 /\ sent' = 0 /\ socket' = <<>> /\ peerClosed' = FALSE
                 /\ UNCHANGED config
            ELSE /\ accept' = [accept EXCEPT !.pc = "returned",
                                   !.closed = @ \cup {accept.conns},
                                   !.answer = a,
                                   !.ret = [kind |-> "error", conn |-> 0,
                                            policy |-> "none", err |-> a.err]]
                 /\ UNCHANGED <<config, network>>
       ELSE IF ReturnsRaw(a.policy)
       THEN /\ accept' = [accept EXCEPT !.pc = "returned",
                              !.answer = a,
                              !.ret = [kind |-> "conn", conn |-> accept.conns,
                                       policy |-> "none", err |-> "nil"]]
            /\ UNCHANGED <<config, network>>
       ELSE AcceptWraps(a)
    /\ UNCHANGED <<io, connDeadline, readDeadline, wrapper, pc, op, origDeadline, ret,
                   delivered, ghosts, calls, listener, codec, copied, fwd>>

NextAccept ==
    \/ \E e \in {"conn", "error"} : ListenerAccept(e)
    \/ \E a \in PolicyAnswers : AcceptPolicy(a)
    \/ \E c \in 1..40 : Arrive(c)
    \/ PeerClose
    \/ \E o \in Ops : Call("g1", o)
    \/ HdrFill("g1")
    \/ \E e \in {"none", "eof", "timeout"} : HdrReturn("g1", e)
    \/ ProxyHeader("g1")
    \/ LocalAddr("g1")
    \/ RemoteAddr("g1")
    \/ ReadFailed("g1")
    \/ \E k \in ReadSizes : ReadData("g1", k)
    \/ \E e \in {"EOF", "timeout"} : ReadEnds("g1", e)

SpecAccept == InitAccept /\ [][NextAccept]_vars

\* ------------------------------------------------------------------------
\* Format and parse: a header is formatted, and the bytes are parsed from a
\* reader over a source that holds exactly these bytes.
\* ------------------------------------------------------------------------

IPv4s == {<<1, 2, 3, 4>>, <<10, 0, 0, 200>>, Zeros(4), <<255, 255, 255, 255>>}

\* ::1, 2001:db8::1, ::, 1:2:3:4:5:6:7:8, 2001:db8:0:0:1:0:0:1,
\* 1:0:2:3:4:5:6:7, fe80::, ff02::1:ff00:abcd, and the IPv4-mapped
\* ::ffff:1.2.3.4 and ::ffff:10.0.0.200
IPv6s ==
    {Zeros(15) \o <<1>>,
     <<32, 1, 13, 184>> \o Zeros(11) \o <<1>>,
     Zeros(16),
     <<0, 1, 0, 2, 0, 3, 0, 4, 0, 5, 0, 6, 0, 7, 0, 8>>,
     <<32, 1, 13, 184, 0, 0, 0, 0, 0, 1, 0, 0, 0, 0, 0, 1>>,
     <<0, 1, 0, 0, 0, 2, 0, 3, 0, 4, 0, 5, 0, 6, 0, 7>>,
     <<254, 128>> \o Zeros(14),
     <<255, 2>> \o Zeros(9) \o <<1, 255, 0, 171, 205>>,
     Zeros(10) \o <<255, 255, 1, 2, 3, 4>>,
     Zeros(10) \o <<255, 255, 10, 0, 0, 200>>}

HeaderOf(version, cmd, tp, src, dst, tlvs) ==
    [Version |-> version, Command |-> cmd, TransportProtocol |-> tp,
     SourceAddr |-> src, DestinationAddr |-> dst, rawTLVs |-> tlvs]

\* The well-formed v2 headers the check draws from. The raw TLVs are none,
\* or one TLV (a type, the length of the value, the value) that makes the
\* length field 7 more than the address block, or the size of the reader's
\* buffer, or one more.
V2Headers ==
    LET RawTLV(n) == IF n = 0 THEN <<>> ELSE <<224>> \o PutUint16(n - 3) \o Zeros(n - 3)
        TLVLengths(fixed) == {0, 7, BufSize - fixed, BufSize - fixed + 1}
    IN  {HeaderOf(2, cmd, tp, newIPAddr(tp, ip, 1000), newIPAddr(tp, <<5, 6, 7, 8>>, 65535),
                  RawTLV(n)) :
            cmd \in supportedCommand, tp \in {TCPv4, UDPv4}, ip \in IPv4s,
            n \in TLVLengths(lengthV4)}
        \cup
        {HeaderOf(2, cmd, tp, newIPAddr(tp, ip, 0), newIPAddr(tp, Zeros(15) \o <<2>>, 443),
                  RawTLV(n)) :
            cmd \in supportedCommand, tp \in {TCPv6, UDPv6}, ip \in IPv6s,
            n \in TLVLengths(lengthV6)}
        \cup
        {HeaderOf(2, cmd, tp, UnixAddr(AddrKind(tp), name), UnixAddr(AddrKind(tp), <<47, 100>>),
                  RawTLV(n)) :
            cmd \in supportedCommand, tp \in {UnixStream, UnixDatagram},
            name \in {<<47, 116, 109, 112, 47, 97>>, <<47, 98>>},
            n \in TLVLengths(lengthUnix)}
        \cup
        {HeaderOf(2, CmdLOCAL, UNSPEC, NilAddr, NilAddr, RawTLV(n)) :
            n \in TLVLengths(lengthUnspec)}

\* The well-formed v1 headers the check draws from.
V1Headers ==
    {HeaderOf(1, CmdPROXY, TCPv4, TCPAddr(ip, sp), TCPAddr(<<5, 6, 7, 8>>, 443), <<>>) :
        ip \in IPv4s, sp \in {0, 80, 65535}}
    \cup
    {HeaderOf(1, CmdPROXY, TCPv6, TCPAddr(ip, 80), TCPAddr(Zeros(15) \o <<2>>, dp), <<>>) :
        ip \in IPv6s, dp \in {0, 80, 65535}}
    \cup
    {HeaderOf(1, CmdLOCAL, UNSPEC, NilAddr, NilAddr, <<>>)}

\* A value of n bytes.
Bytes(n) == [i \in 1..n |-> i % 251]

\* The v1 lines the check draws from, with the text of each above it, and
\* the lines "PROXY UNKNOWN xx...x" of 105 to 110 bytes and of 200 bytes that
\* end in CR LF, in LF alone, or (106, 107 and 200 bytes) not at all.
V1Lines ==
    LET Padded(n) == <<80, 82, 79, 88, 89, 32, 85, 78, 75, 78, 79, 87, 78, 32>>
                     \o [i \in 1..n - 14 |-> 120]
    IN  {
         \* PROXY TCP4 1.1.1.1 2.2.2.2 7 8\r\n
         <<80, 82, 79, 88, 89, 32, 84, 67, 80, 52, 32, 49, 46, 49, 46, 49, 46, 49, 32,
         50, 46, 50, 46, 50, 46, 50, 32, 55, 32, 56, 13, 10>>,
         \* PROXY TCP4 1.1.1.1 2.2.2.2 7\r\n
         <<80, 82, 79, 88, 89, 32, 84, 67, 80, 52, 32, 49, 46, 49, 46, 49, 46, 49, 32,
         50, 46, 50, 46, 50, 46, 50, 32, 55, 13, 10>>,
         \* PROXY TCP4 1.1.1.1 2.2.2.2\r\n
         <<80, 82, 79, 88, 89, 32, 84, 67, 80, 52, 32, 49, 46, 49, 46, 49, 46, 49, 32,
         50, 46, 50, 46, 50, 46, 50, 13, 10>>,
         \* PROXY TCP4\r\n
         <<80, 82, 79, 88, 89, 32, 84, 67, 80, 52, 13, 10>>,
         \* PROXY TCP4 1.1.1.1 2.2.2.2 7 8 9\r\n
         <<80, 82, 79, 88, 89, 32, 84, 67, 80, 52, 32, 49, 46, 49, 46, 49, 46, 49, 32,
         50, 46, 50, 46, 50, 46, 50, 32, 55, 32, 56, 32, 57, 13, 10>>,
         \* PROXY TCP6 ::1 ::2 7 8 x y\r\n
         <<80, 82, 79, 88, 89, 32, 84, 67, 80, 54, 32, 58, 58, 49, 32, 58, 58, 50, 32,
         55, 32, 56, 32, 120, 32, 121, 13, 10>>,
         \* PROXY TCP6 ::1 ::2 7\r\n
         <<80, 82, 79, 88, 89, 32, 84, 67, 80, 54, 32, 58, 58, 49, 32, 58, 58, 50, 32,
         55, 13, 10>>,
         \* PROXY TCP4 1.1.1.1 2.2.2.2 7 8\n
         <<80, 82, 79, 88, 89, 32, 84, 67, 80, 52, 32, 49, 46, 49, 46, 49, 46, 49, 32,
         50, 46, 50, 46, 50, 46, 50, 32, 55, 32, 56, 10>>,
         \* PROXY TCP4 1.1.1.1 2.2.2.2 7 8\r \n
         <<80, 82, 79, 88, 89, 32, 84, 67, 80, 52, 32, 49, 46, 49, 46, 49, 46, 49, 32,
         50, 46, 50, 46, 50, 46, 50, 32, 55, 32, 56, 13, 32, 10>>,
         \* PROXY UNKNOWN\n
         <<80, 82, 79, 88, 89, 32, 85, 78, 75, 78, 79, 87, 78, 10>>,
         \* \n
         <<10>>,
         \* x\n
         <<120, 10>>,
         \* PROXY TCP4 1.1 (the source ends)
         <<80, 82, 79, 88, 89, 32, 84, 67, 80, 52, 32, 49, 46, 49>>}
        \cup {Padded(n - 2) \o crlf : n \in 105..110}
        \cup {Padded(n - 1) \o <<10>> : n \in 105..110}
        \cup {Padded(200) \o crlf, Padded(200), Padded(106), Padded(107)}

\* The v2 headers on the wire the check draws from: the signature, LOCAL or
\* PROXY, a transport byte, a length around the minimum of each family or
\* with 3 bytes of TLVs, and the payload: whole, or one byte short, or whole
\* with 3 more bytes after it.
V2Wires ==
    {SIGV2 \o <<cmd, tp>> \o PutUint16(length) \o Bytes(length + more) :
        cmd \in supportedCommand,
        tp \in {UNSPEC, TCPv4, UDPv4, TCPv6, UDPv6, UnixStream, UnixDatagram,
                1, 2, 16, 19, 32, 48, 51, 65, 255},
        length \in {0, 3, 11, 12, 15, 35, 36, 39, 215, 216, 219},
        more \in {-1, 0, 3}}

\* The TLV lists the check draws from, each TLV given by its type and the
\* number n of bytes of its value, which is Bytes(n): values of 0, 1, 2, 3,
\* 16, 17, 255, 256, 65535 and 65536 bytes, and lists with NOOP entries.
TLVLists ==
    LET T(t, n) == [Type |-> t, n |-> n]
    IN  {<<>>,
         <<T(1, 0)>>,
         <<T(1, 1)>>,
         <<T(224, 16), T(5, 17)>>,
         <<T(2, 255), T(3, 256), T(32, 3)>>,
         <<T(2, 0), T(2, 0), T(255, 2)>>,
         <<T(240, 65535)>>,
         <<T(1, 65535), T(48, 1)>>,
         <<T(2, 65536)>>,
         <<T(1, 2), T(2, 65536)>>,
         <<T(PP2_TYPE_NOOP, 2), T(1, 1)>>,
         <<T(PP2_TYPE_NOOP, 0)>>}

\* The []TLV of a list of the check.
Values(tlvs) == [i \in 1..Len(tlvs) |-> [Type |-> tlvs[i].Type, Value |-> Bytes(tlvs[i].n)]]

\* The raw vector of a start state of SplitTLVs: the join of its TLVs with
\* the last cut bytes taken off (all of it, when it has fewer).
MaxCut == 4

CutRaw(tlvs, cut) ==
    LET raw == JoinRaw(Values(tlvs))
    IN  IF cut >= Len(raw) THEN <<>> ELSE Take(raw, Len(raw) - cut)

\* What the state keeps of returned bytes: the error, the first 16 bytes
\* and the number of bytes; and of returned TLVs: per TLV the type, the
\* number of bytes of the value, and whether the value is Bytes of that
\* number.
Digest(r) == [err |-> r.err, head |-> Take(r.bytes, 16), size |-> Len(r.bytes)]

Described(r) ==
    [err  |-> r.err,
     tlvs |-> [i \in 1..Len(r.tlvs) |->
                 [Type |-> r.tlvs[i].Type, n |-> Len(r.tlvs[i].Value),
                  same |-> r.tlvs[i].Value = Bytes(Len(r.tlvs[i].Value))]]]

InitCodec ==
    /\ codec \in [step : {"header"}, h : V1Headers \cup V2Headers, tlvs : {<<>>},
                   out : {FormatFails("none")}, res : {Need}, split : {NoTLVs("none")}, cut : {0}]
                  \cup
                  [step : {"tlvs"}, h : {NilHeader}, tlvs : TLVLists,
                   out : {FormatFails("none")}, res : {Need}, split : {NoTLVs("none")}, cut : {0}]
                  \cup
                  [step : {"wire"}, h : {NilHeader}, tlvs : {<<>>},
                   out : {Formatted(b) : b \in V1Lines \cup V2Wires}, res : {Need},
                   split : {NoTLVs("none")}, cut : {0}]
                  \cup
                  {[step |-> "sized", h |-> h,
                    tlvs |-> <<[Type |-> 224, n |-> total - V2Fixed(h.TransportProtocol) - 3]>>,
                    out |-> FormatFails("none"), res |-> Need, split |-> NoTLVs("none"),
                    cut |-> 0] :
                       h \in {v \in V2Headers : v.rawTLVs = <<>>},
                       total \in {65535, 65536, 65543}}
                  \cup
                  {[step |-> "raw", h |-> NilHeader, tlvs |-> tlvs,
                    out |-> FormatFails("none"), res |-> Need, split |-> NoTLVs("none"),
                    cut |-> cut] :
                       tlvs \in {l \in TLVLists : \A i \in 1..Len(l) : l[i].n <= 65535},
                       cut \in 0..MaxCut}
    /\ scn = 1
    /\ ProxyHeaderPolicy = "USE" /\ readHeaderTimeout = 0 /\ Validate = "nil"
    /\ sent = 0 /\ socket = <<>> /\ peerClosed = FALSE
    /\ connDeadline = "none" /\ readDeadline = "unset"
    /\ once = "fresh" /\ readErr = "nil" /\ header = NilHeader
    /\ bufReader = <<>> /\ reader = "multi"
    /\ pc = [p \in Procs |-> "idle"]
    /\ op = [p \in Procs |-> "none"]
    /\ origDeadline = "none"
    /\ ret = NoRet
    /\ delivered = <<>>
    /\ hdrReads = 0 /\ hdrIO = FALSE /\ hdrEnd = "running" /\ hdrSeen = 0
    /\ calls = 0
    /\ setBefore = "none" /\ validated = 0
    /\ written = <<>> /\ writeDeadline = "none"
    /\ hasBufReader = TRUE /\ pool = <<>> /\ connClosed = 0
    /\ listener = NoListener /\ accept = NoAccept
    /\ copied = <<>> /\ fwd = NoForward

NotCodec ==
    <<config, network, connDeadline, readDeadline, wrapper, pc, op, origDeadline, ret,
      delivered, ghosts, calls, io, listener, accept, copied, fwd>>

\* header.formatVersion1()
FormatV1 ==
    /\ codec.step = "header" /\ codec.h.Version = 1
    /\ codec' = [codec EXCEPT !.step = "formatted", !.out = formatVersion1(codec.h)]
    /\ UNCHANGED NotCodec

\* header.formatVersion2(): it returns, or the hand-back of the Unix name
\* buffers faults.
FormatV2(outcome) ==
    /\ codec.step = "header" /\ codec.h.Version = 2
    /\ outcome \in PutUnixOutcomes(codec.h)
    /\ codec' = IF outcome = "faults"
                THEN [codec EXCEPT !.step = "fault"]
                ELSE [codec EXCEPT !.step = "formatted", !.out = formatVersion2(codec.h)]
    /\ UNCHANGED NotCodec

\* header.formatVersion2() of a header whose raw TLVs are the join of the
\* TLVs of the state, which make the address block and the TLVs 65535 bytes
\* or more.
FormatSized(outcome) ==
    /\ codec.step = "sized"
    /\ outcome \in PutUnixOutcomes(codec.h)
    /\ codec' = IF outcome = "faults"
                THEN [codec EXCEPT !.step = "sized-fault"]
                ELSE [codec EXCEPT
                        !.step = "measured",
                        !.out = Digest(formatVersion2(
                                    [codec.h EXCEPT !.rawTLVs = JoinRaw(Values(codec.tlvs))]))]
    /\ UNCHANGED NotCodec

\* parseVersion1 on a reader over the formatted line, or over the bytes on
\* the wire, which are no v2 header. The reader has these bytes buffered;
\* its source has no more to give for now, or is at its end.
ParseV1 ==
    /\ \/ codec.step = "formatted" /\ codec.h.Version = 1 /\ codec.out.err = "nil"
       \/ codec.step = "wire" /\ codec.out.bytes \in V1Lines
    /\ \E ioerr \in {"none", "eof"} :
          codec' = [codec EXCEPT !.step = "parsed",
                                  !.res = parseVersion1(codec.out.bytes, ioerr)]
    /\ UNCHANGED NotCodec

\* parseVersion2 on a reader over the formatted bytes, or over the bytes on
\* the wire, which begin with the v2 signature.
ParseV2 ==
    /\ \/ codec.step = "formatted" /\ codec.h.Version = 2 /\ codec.out.err = "nil"
       \/ codec.step = "wire" /\ codec.out.bytes \in V2Wires
    /\ codec' = [codec EXCEPT !.step = "parsed", !.res = parseVersion2(codec.out.bytes, "eof")]
    /\ UNCHANGED NotCodec

\* JoinTLVs(tlvs)
JoinList ==
    /\ codec.step = "tlvs"
    /\ codec' = [codec EXCEPT !.step = "joined", !.out = Digest(JoinTLVs(Values(codec.tlvs)))]
    /\ UNCHANGED NotCodec

\* SplitTLVs(raw) on the bytes JoinTLVs returned.
SplitJoined ==
    /\ codec.step = "joined" /\ codec.out.err = "nil"
    /\ codec' = [codec EXCEPT !.step = "split",
                               !.split = Described(SplitTLVs(JoinTLVs(Values(codec.tlvs)).bytes))]
    /\ UNCHANGED NotCodec

\* SplitTLVs(raw) on a vector that ends where an entry ends, or within the
\* type and length of an entry, or within its value.
SplitRaw ==
    /\ codec.step = "raw"
    /\ codec' = [codec EXCEPT !.step = "splitraw",
                               !.split = Described(SplitTLVs(CutRaw(codec.tlvs, codec.cut)))]
    /\ UNCHANGED NotCodec

NextCodec ==
    \/ JoinList
    \/ SplitJoined
    \/ SplitRaw
    \/ FormatV1
    \/ \E outcome \in {"returns", "faults"} : FormatV2(outcome)
    \/ \E outcome \in {"returns", "faults"} : FormatSized(outcome)
    \/ ParseV1
    \/ ParseV2

SpecCodec == InitCodec /\ [][NextCodec]_vars

\* net.IP.Equal, and the equality of two addresses field by field.
SameAddr(a, b) ==
    /\ a.Net = b.Net
    /\ To16(a.IP) = To16(b.IP)
    /\ a.Port = b.Port
    /\ a.Name = b.Name

SameHeader(a, b) ==
    /\ a.Version = b.Version
    /\ a.Command = b.Command
    /\ a.TransportProtocol = b.TransportProtocol
    /\ SameAddr(a.SourceAddr, b.SourceAddr)
    /\ SameAddr(a.DestinationAddr, b.DestinationAddr)
    /\ a.rawTLVs = b.rawTLVs

\* The round trip of the header has come to its end and has given the header
\* back: both steps returned without an error and every field is equal.
RoundTripDone ==
    \/ codec.step \in {"parsed", "fault"}
    \/ codec.step = "formatted" /\ codec.out.err # "nil"

RoundTripOk ==
    /\ codec.step = "parsed"
    /\ codec.res.st = "done" /\ codec.res.err = "nil"
    /\ SameHeader(codec.res.header, codec.h)

\* ------------------------------------------------------------------------
\* The epoll forwarder, epollZeroCopy(src, dst, buf), between two TCP
\* connections, with no error of a system call other than EAGAIN.
\* ------------------------------------------------------------------------

\* The bytes the peer of the source sends, and the most it sends at once.
FwdStream == <<1, 2, 3, 4>>

MaxSegment == 2

\* len(buf), the size of the transfer buffer.
FwdBuf == 2

\* The most bytes the destination takes without blocking.
MaxRoom == 2

\* epollZeroCopy has registered both descriptors and is at EpollWait. src
\* holds the bytes the source socket has received, room is the number of
\* bytes the destination socket takes now, dst holds the bytes written to
\* it, read the bytes read from the source, total is the counter returned.
InitForward ==
    /\ fwd \in [pc : {"wait"}, sent : {0}, src : {<<>>}, srcClosed : {FALSE},
                 room : 0..MaxRoom, dst : {<<>>}, read : {<<>>}, total : {0},
                 err : {"none"}]
    /\ scn = 1
    /\ ProxyHeaderPolicy = "USE" /\ readHeaderTimeout = 0 /\ Validate = "nil"
    /\ sent = 0 /\ socket = <<>> /\ peerClosed = FALSE
    /\ connDeadline = "none" /\ readDeadline = "unset"
    /\ once = "fresh" /\ readErr = "nil" /\ header = NilHeader
    /\ bufReader = <<>> /\ reader = "multi"
    /\ pc = [p \in Procs |-> "idle"]
    /\ op = [p \in Procs |-> "none"]
    /\ origDeadline = "none"
    /\ ret = NoRet
    /\ delivered = <<>>
    /\ hdrReads = 0 /\ hdrIO = FALSE /\ hdrEnd = "running" /\ hdrSeen = 0
    /\ calls = 0
    /\ setBefore = "none" /\ validated = 0
    /\ written = <<>> /\ writeDeadline = "none"
    /\ hasBufReader = TRUE /\ pool = <<>> /\ connClosed = 0
    /\ listener = NoListener /\ accept = NoAccept /\ codec = NoCodec
    /\ copied = <<>>

NotForward ==
    <<config, network, connDeadline, readDeadline, wrapper, pc, op, origDeadline, ret,
      delivered, ghosts, calls, io, listener, accept, codec, copied>>

\* The peer of the source sends the next k bytes.
SrcSends(k) ==
    /\ fwd.pc = "wait" /\ ~fwd.srcClosed
    /\ k \in 1..MaxSegment /\ fwd.sent + k <= Len(FwdStream)
    /\ fwd' = [fwd EXCEPT !.src = @ \o SubSeq(FwdStream, fwd.sent + 1, fwd.sent + k),
                           !.sent = @ + k]
    /\ UNCHANGED NotForward

\* The peer of the source closes after its last byte.
SrcCloses ==
    /\ fwd.pc = "wait" /\ ~fwd.srcClosed /\ fwd.sent = Len(FwdStream)
    /\ fwd' = [fwd EXCEPT !.srcClosed = TRUE]
    /\ UNCHANGED NotForward

\* The peer of the destination reads: the destination takes r bytes again.
DstDrains(r) ==
    /\ fwd.pc = "wait" /\ r \in 1..MaxRoom /\ r > fwd.room
    /\ fwd' = [fwd EXCEPT !.room = r]
    /\ UNCHANGED NotForward

\* The chunk of a round of the loop: Read(srcFd, buf) takes up to len(buf)
\* bytes; the inner loop writes them when the destination was reported
\* writable, until all are written or Write answers EAGAIN, and the round
\* ends there.
Written(chunk, room) == Min(Len(chunk), room)

\* EpollWait reports the source readable and Read returns bytes.
EpollRead ==
    LET chunk == Take(fwd.src, FwdBuf)
        w     == Written(chunk, fwd.room)
    IN  /\ fwd.pc = "wait" /\ fwd.src # <<>>
        /\ fwd' = [fwd EXCEPT !.src = Drop(@, FwdBuf),
                               !.read = @ \o chunk,
                               !.dst = @ \o Take(chunk, w),
                               !.room = @ - w,
                               !.total = @ + w]
        /\ UNCHANGED NotForward

\* EpollWait reports the source readable (EPOLLRDHUP) and Read returns 0: the
\* loop ends and epollZeroCopy returns total and no error.
EpollEOF ==
    /\ fwd.pc = "wait" /\ fwd.src = <<>> /\ fwd.srcClosed
    /\ fwd' = [fwd EXCEPT !.pc = "returned", !.err = "nil"]
    /\ UNCHANGED NotForward

\* EpollWait reports nothing for a second: the source has no byte and is
\* open, the destination is not writable. With total > 0 epollZeroCopy
\* returns total and no error (with total = 0 it waits again).
TimeoutReturns(total) == total > 0

EpollTimeout ==
    /\ fwd.pc = "wait" /\ fwd.src = <<>> /\ ~fwd.srcClosed /\ fwd.room = 0
    /\ TimeoutReturns(fwd.total)
    /\ fwd' = [fwd EXCEPT !.pc = "returned", !.err = "nil"]
    /\ UNCHANGED NotForward

NextForward ==
    \/ \E k \in 1..MaxSegment : SrcSends(k)
    \/ SrcCloses
    \/ \E r \in 1..MaxRoom : DstDrains(r)
    \/ EpollRead
    \/ EpollEOF
    \/ EpollTimeout

SpecForward == InitForward /\ [][NextForward]_vars

\* ------------------------------------------------------------------------
\* The properties.
\* ------------------------------------------------------------------------

IsPrefix(a, b) == Len(a) <= Len(b) /\ a = Take(b, Len(a))

Scn == Scenarios[scn]

\* The stream starts with a valid header; Payload is what follows it.
HasHeader == Scn.hlen > 0

\* The peer has sent a stream that starts with a valid header, or one
\* without signature.
SentHeader == HasHeader /\ sent >= Scn.hlen

SentPlain == ~HasHeader /\ sent > 0

Payload == Drop(Stream, Scn.hlen)

Latched == once = "done"

\* The header read ended with the whole header in the buffered reader.
WholeHeader == hdrEnd # "running" /\ hdrSeen >= Scn.hlen

\* The header read was ended by a read timeout: one that readHeader
\* translates (a header-read timeout is configured), or one it returns as it is.
TimedOut == hdrEnd \in {"header deadline", "caller deadline"}

Degraded == TimedOut /\ readHeaderTimeout > 0

IOFailed == TimedOut /\ readHeaderTimeout = 0

\* The Reads so far have returned a prefix of s, and the whole of s once a
\* Read has returned io.EOF.
Delivers(s) ==
    /\ IsPrefix(delivered, s)
    /\ (ret.op = "Read" /\ ret.err = "EOF" => delivered = s)

\* The methods answer as for a connection without header.
Underlying ==
    /\ header = NilHeader
    /\ (ret.op = "ProxyHeader" => ret.hdr = NilHeader)
    /\ (ret.op = "LocalAddr" => ret.addr = ConnLocalAddr)
    /\ (ret.op = "RemoteAddr" => ret.addr = ConnRemoteAddr)

\* C1, as stated: under USE or REQUIRE, on a stream that is a valid header
\* followed by a payload, the bytes the Reads return are always a prefix of
\* the payload, and all of it at the end of the stream.
C1_PayloadOnly ==
    (ProxyHeaderPolicy \in {"USE", "REQUIRE"} /\ HasHeader) => Delivers(Payload)

\* C1, amended: the same, unless under USE the header read was ended by a
\* read timeout that readHeader translated to "no header".
C1_PayloadOnlyUnlessDegraded ==
    (/\ ProxyHeaderPolicy \in {"USE", "REQUIRE"} /\ HasHeader
     /\ ~(ProxyHeaderPolicy = "USE" /\ Degraded))
    => Delivers(Payload)

\* C1, its case: a header was stored, a Read has returned payload bytes out
\* of the read-ahead buffer, and more of the payload is still buffered.
C1_Witness ==
    /\ ProxyHeaderPolicy \in {"USE", "REQUIRE"} /\ header # NilHeader
    /\ delivered # <<>> /\ IsPrefix(delivered, Payload)
    /\ reader = "multi" /\ bufReader # <<>>

\* C2: readHeader is entered at most once; a method returns only when the
\* header read has ended, and what each caller has seen of the header and of
\* the stored error is what the wrapper holds ever after.
C2_OneShot ==
    /\ hdrReads <= 1
    /\ (ret.op \in Ops => ret.latched /\ ret.seenHdr = header /\ ret.seenErr = readErr)
    /\ (ret.op = "ProxyHeader" => ret.hdr = header)

\* C2, its case: two goroutines are in once.Do after one header read, which
\* has stored a header.
C2_Witness ==
    /\ pc["g1"] = "once" /\ pc["g2"] = "once" /\ Latched
    /\ hdrReads = 1 /\ header # NilHeader

\* C3, as stated: under USE or REQUIRE, on a stream that starts with a valid
\* header of command PROXY, RemoteAddr returns the header's source address and
\* LocalAddr its destination address.
C3_HeaderAddrs ==
    (ProxyHeaderPolicy \in {"USE", "REQUIRE"} /\ SentHeader /\ Scn.cmd = CmdPROXY)
    => /\ (ret.op = "RemoteAddr" => ret.addr = Scn.src)
       /\ (ret.op = "LocalAddr" => ret.addr = Scn.dst)

\* C3, amended: the same when the whole header was buffered at the end of the
\* header read and no validator rejects it.
C3_HeaderAddrsWhenRead ==
    (/\ ProxyHeaderPolicy \in {"USE", "REQUIRE"} /\ SentHeader /\ Scn.cmd = CmdPROXY
     /\ WholeHeader /\ Validate # "reject")
    => /\ (ret.op = "RemoteAddr" => ret.addr = Scn.src)
       /\ (ret.op = "LocalAddr" => ret.addr = Scn.dst)

\* C3, its case: RemoteAddr, called first and before any Read, has returned
\* the source address of the header.
C3_Witness ==
    /\ ProxyHeaderPolicy \in {"USE", "REQUIRE"} /\ Scn.cmd = CmdPROXY
    /\ calls = 1 /\ delivered = <<>>
    /\ ret.op = "RemoteAddr" /\ ret.addr = Scn.src /\ ret.addr # ConnRemoteAddr

C7_SkipReadsNoHeader ==
    ProxyHeaderPolicy = "SKIP" => hdrReads = 0 /\ ~hdrIO /\ Delivers(Stream)

\* C8, as stated: under USE or REQUIRE a valid header of command LOCAL is
\* kept (ProxyHeader is not nil), and LocalAddr and RemoteAddr return the
\* addresses of the socket.
C8_LocalHeader ==
    (ProxyHeaderPolicy \in {"USE", "REQUIRE"} /\ SentHeader /\ Scn.cmd = CmdLOCAL /\ Latched)
    => /\ header # NilHeader
       /\ (ret.op = "ProxyHeader" => ret.hdr # NilHeader)
       /\ (ret.op = "LocalAddr" => ret.addr = ConnLocalAddr)
       /\ (ret.op = "RemoteAddr" => ret.addr = ConnRemoteAddr)

\* C8, amended: the addresses are those of the socket in every case; the
\* header is kept when the whole header was buffered at the end of the header
\* read and no validator rejects it.
C8_LocalHeaderWhenRead ==
    (ProxyHeaderPolicy \in {"USE", "REQUIRE"} /\ SentHeader /\ Scn.cmd = CmdLOCAL /\ Latched)
    => /\ (WholeHeader /\ Validate # "reject")
          => /\ header # NilHeader /\ IsLocal(header.Command)
             /\ (ret.op = "ProxyHeader" => ret.hdr # NilHeader)
       /\ (ret.op = "LocalAddr" => ret.addr = ConnLocalAddr)
       /\ (ret.op = "RemoteAddr" => ret.addr = ConnRemoteAddr)

\* C8, its case: a header of command LOCAL is stored and RemoteAddr has
\* returned the address of the socket.
C8_Witness ==
    /\ ProxyHeaderPolicy \in {"USE", "REQUIRE"} /\ Scn.cmd = CmdLOCAL
    /\ header # NilHeader /\ IsLocal(header.Command)
    /\ ret.op = "RemoteAddr" /\ ret.addr = ConnRemoteAddr

\* C9: under USE with a header-read timeout, when the header read ends by
\* the timeout with nothing received, there is no error and no header, the
\* addresses are those of the socket, and the Reads deliver what the peer
\* sends afterwards from its first byte.
C9_SilentPeer ==
    (/\ ProxyHeaderPolicy = "USE" /\ readHeaderTimeout > 0
     /\ hdrEnd = "header deadline" /\ hdrSeen = 0)
    => /\ readErr = "nil" /\ Underlying /\ Delivers(Stream)
       /\ (ret.op = "Read" => ret.err \in {"nil", "EOF", "timeout"})

\* C9, its case: the header deadline expired with nothing sent, and the
\* Reads have since delivered the whole stream, which the peer sent later.
C9_Witness ==
    /\ ProxyHeaderPolicy = "USE" /\ readHeaderTimeout > 0
    /\ hdrEnd = "header deadline" /\ hdrSeen = 0
    /\ delivered = Stream /\ ret.op = "Read" /\ ret.n > 0

\* C10: when the header deadline expires during the header read, the outcome is that of ErrNoProxyProtocol under
\* the policy, ErrNoProxyProtocol under REQUIRE and no error otherwise, and no
\* header is stored.
C10_ExpiryIsNoProxyProtocol ==
    (readHeaderTimeout > 0 /\ hdrEnd = "header deadline")
    => /\ readErr = IF ProxyHeaderPolicy = "REQUIRE" THEN "ErrNoProxyProtocol" ELSE "nil"
       /\ header = NilHeader

\* C11: with a positive header-read timeout, the step in which readHeader
\* returns, on whichever path, leaves the connection with the read deadline
\* the caller last set through the wrapper before the header read began, and
\* with none if the caller had set none.
C11_DeadlineRestored ==
    [][(once = "running" /\ once' = "done" /\ readHeaderTimeout > 0)
         => connDeadline' = setBefore]_vars

\* C11, witness: a header read that the header deadline ended has returned,
\* and the connection has the deadline the caller had set before.
C11_Witness ==
    /\ readHeaderTimeout > 0 /\ hdrEnd = "header deadline"
    /\ setBefore = "d1" /\ connDeadline = "d1"

\* C12: once the header read has failed, no Read has delivered or delivers a
\* byte, and a Read returns 0 bytes and the stored error.
C12_PermanentFailure ==
    (Latched /\ readErr # "nil") =>
        /\ delivered = <<>>
        /\ (ret.op = "Read" => ret.n = 0 /\ ret.err = readErr /\ ret.seenErr = readErr)

\* C12, witness: the whole stream has arrived, the header read has failed,
\* and the second call, a Read, has returned the stored error.
C12_Witness ==
    /\ sent = Len(Stream) /\ Latched /\ readErr # "nil"
    /\ calls = MaxCalls /\ ret.op = "Read" /\ ret.err = readErr

\* C13: after a header read that ended in an error the methods answer as
\* for a connection without header; the validator is called at most once,
\* and only under USE or REQUIRE for a header that was wholly read.
C13_ErrorHidesHeader ==
    /\ (Latched /\ readErr # "nil") => Underlying
    /\ validated <= 1
    /\ validated = 1 =>
          /\ ProxyHeaderPolicy \in {"USE", "REQUIRE"}
          /\ HasHeader /\ WholeHeader

\* C13, witness: the validator has rejected a PROXY header and RemoteAddr
\* has returned the address of the socket's peer.
C13_Witness ==
    /\ Scn.cmd = CmdPROXY /\ validated = 1 /\ readErr = "validateErr"
    /\ ret.op = "RemoteAddr" /\ ret.addr = ConnRemoteAddr

\* A step of Write, SetDeadline, SetReadDeadline or SetWriteDeadline: a call
\* that returns at once and is not Close.
DelegateStep ==
    /\ calls' = calls + 1 /\ pc' = pc /\ connClosed' = connClosed
    /\ ret'.op \in {"Write", "SetDeadline", "SetReadDeadline", "SetWriteDeadline"}

\* C14: Write and the three deadline setters hand their argument to the
\* connection and return its answer, do not enter the header read, and leave
\* the header, the stored error and the buffered reader as they are.
C14_Delegates ==
    [][DelegateStep =>
         /\ UNCHANGED <<once, readErr, header, bufReader, reader, hdrReads>>
         /\ ret'.err = "nil"
         /\ (ret'.op = "Write" =>
                /\ written' = Append(written, ret'.arg) /\ ret'.n = ret'.arg
                /\ UNCHANGED <<connDeadline, writeDeadline>>)
         /\ (ret'.op = "SetDeadline" =>
                /\ connDeadline' = ret'.arg /\ writeDeadline' = ret'.arg
                /\ UNCHANGED written)
         /\ (ret'.op = "SetReadDeadline" =>
                /\ connDeadline' = ret'.arg
                /\ UNCHANGED <<writeDeadline, written>>)
         /\ (ret'.op = "SetWriteDeadline" =>
                /\ writeDeadline' = ret'.arg
                /\ UNCHANGED <<connDeadline, written>>)]_vars

\* C14, witness: a large Write on a wrapper whose header read has failed.
C14_Witness ==
    /\ Latched /\ readErr # "nil" /\ ret.op = "Write" /\ written = <<4096>>

\* C15: over the Close calls made one after another the reader is put into
\* the pool at most once; a Close has closed the connection, and the reader
\* in the pool has no source and nothing buffered.
C15_CloseReleasesOnce ==
    /\ Len(pool) <= 1
    /\ ret.op = "Close" =>
          /\ connClosed >= 1 /\ ~hasBufReader
          /\ pool = <<[buffered |-> <<>>, source |-> "nil"]>>

\* C15, witness: Close has been called twice.
C15_Witness ==
    /\ connClosed = 2 /\ Len(pool) = 1 /\ ret.op = "Close"

\* The errors of the kind InvalidUpstream: the error itself, or one that wraps it.
InvalidUpstream == {"ErrInvalidUpstream", "wrapped ErrInvalidUpstream"}

PolicyConfigured == listener.Policy \in {"Policy", "ConnPolicy"}

\* C16: a connection for which the policy function answered InvalidUpstream
\* is closed and Accept goes back to the listener without returning that
\* error; Accept returns an error of the listener, or another error of the
\* policy function after closing the connection, or a connection whose
\* policy was decided without error, which it has not closed.
C16_InvalidUpstreamLoops ==
    /\ accept.ret.err \notin InvalidUpstream
    /\ \A c \in 1..accept.conns : c < accept.conns => c \in accept.closed
    /\ (accept.pc = "accept" /\ accept.conns > 0) =>
          /\ accept.answer.err \in InvalidUpstream
          /\ accept.conns \in accept.closed
    /\ accept.pc = "returned" =>
          \/ accept.ret.kind = "error" /\ accept.ret.err = "listener error"
          \/ /\ accept.ret.kind = "error" /\ accept.ret.err = "policy error"
             /\ accept.answer.err = "policy error" /\ accept.conns \in accept.closed
          \/ /\ accept.ret.kind \in {"conn", "wrapper"}
             /\ accept.ret.conn = accept.conns /\ accept.conns \notin accept.closed
             /\ accept.answer.err = "nil"

\* C16, witness: the first connection was refused with InvalidUpstream and
\* closed, and Accept has returned a wrapper of the second.
C16_Witness ==
    /\ accept.conns = 2 /\ accept.closed = {1}
    /\ accept.pc = "returned" /\ accept.ret.kind = "wrapper"

\* C17: Accept returns the accepted connection itself exactly when the
\* policy function resolved to SKIP, and else a wrapper with the resolved
\* policy, USE without a policy function; until the caller uses what Accept
\* returned no byte of the connection has been read.
C17_SkipIsRaw ==
    /\ accept.ret.kind = "conn" =>
          PolicyConfigured /\ accept.answer = [policy |-> "SKIP", err |-> "nil"]
    /\ accept.ret.kind = "wrapper" =>
          /\ ProxyHeaderPolicy # "SKIP"
          /\ ProxyHeaderPolicy = IF PolicyConfigured THEN accept.answer.policy ELSE "USE"
    /\ (accept.pc # "off" /\ calls = 0) =>
          /\ hdrReads = 0 /\ ~hdrIO /\ bufReader = <<>> /\ delivered = <<>>
          /\ socket = Take(Stream, sent)

\* C17, witness: Accept has returned the connection itself under SKIP, with
\* the whole stream, header included, unread in the socket.
C17_Witness ==
    /\ accept.ret.kind = "conn" /\ HasHeader
    /\ sent = Len(Stream) /\ socket = Stream

\* C18: the wrapper Accept returns has the listener's header-read timeout
\* when that is positive and 10 seconds when it is zero, and its header read
\* runs under the header deadline; when the listener's timeout is negative,
\* no deadline is ever installed and no read of the header times out.
C18_AcceptTimeout ==
    accept.ret.kind = "wrapper" =>
        /\ listener.ReadHeaderTimeout > 0 => readHeaderTimeout = listener.ReadHeaderTimeout
        /\ listener.ReadHeaderTimeout = 0 => readHeaderTimeout = 10
        /\ (listener.ReadHeaderTimeout >= 0 /\ pc["g1"] = "hdr") => connDeadline = "hdr"
        /\ listener.ReadHeaderTimeout < 0 =>
              connDeadline = "none" /\ hdrEnd \notin {"header deadline", "caller deadline"}

\* C18, witness: the listener has no timeout set, and the header read of the
\* wrapper Accept returned was ended by the header deadline.
C18_Witness ==
    /\ accept.ret.kind = "wrapper" /\ listener.ReadHeaderTimeout = 0
    /\ readHeaderTimeout = 10 /\ hdrEnd = "header deadline"

\* C19: for every well-formed v2 header (LOCAL or PROXY, a supported
\* transport with addresses of its family, raw TLVs with fixed + len of at
\* most 65535), formatVersion2 returns bytes, parsing them from a buffered
\* source succeeds, and the parsed header equals the header in version,
\* command, transport, addresses, ports and raw TLVs.
C19_RoundTripV2 == (codec.h.Version = 2 /\ RoundTripDone) => RoundTripOk

\* C20: for every well-formed v1 header (TCPv4 or TCPv6 with addresses of the
\* family, IPv4-mapped IPv6 addresses included for TCPv6, ports in 0..65535;
\* or Unspec with LOCAL), parsing the line formatVersion1 produces succeeds
\* and gives a header equal to the header.
C20_RoundTripV1 == (codec.h.Version = 1 /\ RoundTripDone) => RoundTripOk

\* C21: for a list of TLVs without a NOOP entry whose values have at most
\* 65535 bytes each, JoinTLVs returns bytes, and SplitTLVs of these bytes
\* succeeds with the same types and values in the same order.
C21_SplitJoin ==
    (/\ codec.step \in {"joined", "split"}
     /\ \A i \in 1..Len(codec.tlvs) : /\ codec.tlvs[i].Type # PP2_TYPE_NOOP
                                        /\ codec.tlvs[i].n <= 65535)
    => /\ codec.out.err = "nil"
       /\ codec.step = "split" =>
              codec.split = [err  |-> "nil",
                             tlvs |-> [i \in 1..Len(codec.tlvs) |->
                                         [Type |-> codec.tlvs[i].Type,
                                          n |-> codec.tlvs[i].n, same |-> TRUE]]]

\* C21, witness: two TLVs, the first with a value of 65535 bytes, have been
\* joined and split.
C21_Witness ==
    /\ codec.step = "split"
    /\ Len(codec.tlvs) = 2
    /\ codec.tlvs[1].n = 65535
    /\ codec.split.err = "nil"

\* C30: when a value of the list has more than 65535 bytes, JoinTLVs fails
\* with ErrMalformedTLV and returns no bytes.
C30_JoinMalformed ==
    (/\ codec.step = "joined"
     /\ \E i \in 1..Len(codec.tlvs) : codec.tlvs[i].n > 65535)
    => /\ codec.out.err = "ErrMalformedTLV"
       /\ codec.out.size = 0

\* The bytes on the wire have been parsed; the first LF among them; the
\* tokens of the line they begin with.
ParsedWire(wires) ==
    codec.step = "parsed" /\ codec.h.Version = 0 /\ codec.out.bytes \in wires

WireLF == IndexByte(codec.out.bytes, 10)

WireCRLF == WireLF > 1 /\ codec.out.bytes[WireLF - 1] = 13

WireTokens == Split(Take(codec.out.bytes, WireLF - 2), separator)

\* C22: a buffered v1 line of 107 bytes in all, CR LF included, passes the
\* length check and the framing check; a line with 108 bytes before its
\* CR LF fails with ErrVersion1HeaderTooLong, and neither CR nor LF has been
\* taken from the reader by then.
C22_Line107 ==
    ParsedWire(V1Lines) =>
        /\ (WireCRLF /\ WireLF = 107) =>
               codec.res.err \notin {"ErrVersion1HeaderTooLong", "ErrLineMustEndWithCrlf",
                                     "ErrCantReadVersion1Header"}
        /\ (WireCRLF /\ WireLF = 110) =>
               /\ codec.res.err = "ErrVersion1HeaderTooLong"
               /\ codec.res.header = NilHeader
               /\ codec.res.n < 109

\* C22, witness: a line of 107 bytes in all has been parsed into a header.
C22_Witness ==
    /\ ParsedWire(V1Lines)
    /\ WireCRLF /\ WireLF = 107
    /\ codec.res.err = "nil" /\ codec.res.header.Version = 1

\* C23, as stated: a buffered line that ends in CR LF is answered with
\* ErrVersion1HeaderTooLong exactly when more than 107 bytes come before its
\* LF; with exactly 107 bytes before the LF it is not.
C23_Bound107BeforeLF ==
    (ParsedWire(V1Lines) /\ WireCRLF) =>
        (codec.res.err = "ErrVersion1HeaderTooLong" <=> WireLF - 1 > 107)

\* C23, amended: the bound is 107 bytes of line with the LF: a buffered line
\* that ends in CR LF is answered with ErrVersion1HeaderTooLong exactly when
\* more than 106 bytes come before its LF; with exactly 106 bytes before the
\* LF (107 in all) it is not.
C23_Bound107Total ==
    (ParsedWire(V1Lines) /\ WireCRLF) =>
        (codec.res.err = "ErrVersion1HeaderTooLong" <=> WireLF - 1 > 106)

\* C23, witness: a line with exactly 107 bytes before its LF has been
\* answered with ErrVersion1HeaderTooLong.
C23_Witness ==
    /\ ParsedWire(V1Lines)
    /\ WireCRLF /\ WireLF = 108
    /\ codec.res.err = "ErrVersion1HeaderTooLong"

\* C24: a v1 line with the family TCP4 or TCP6 that has fewer or more than
\* six tokens is rejected, and no header is returned.
C24_ExactlySixTokens ==
    (/\ ParsedWire(V1Lines)
     /\ WireCRLF /\ WireLF <= V1MaxLine
     /\ Len(WireTokens) >= 2
     /\ V1Transport(WireTokens[2]) # UNSPEC
     /\ Len(WireTokens) # 6)
    => /\ codec.res.err # "nil"
       /\ codec.res.header = NilHeader

\* C25: a v1 line whose LF comes within the length bound and has no CR
\* right before it fails with ErrLineMustEndWithCrlf, and no header is
\* returned.
C25_NoCR ==
    (/\ ParsedWire(V1Lines)
     /\ WireLF # 0 /\ WireLF <= V1MaxLine
     /\ ~WireCRLF)
    => /\ codec.res.err = "ErrLineMustEndWithCrlf"
       /\ codec.res.header = NilHeader

\* C25, witness: a line with all six tokens of a TCP4 header that ends in
\* LF alone has been refused.
C25_Witness ==
    /\ ParsedWire(V1Lines)
    /\ WireLF = 31 /\ ~WireCRLF
    /\ Len(Split(Take(codec.out.bytes, WireLF - 1), separator)) = 6
    /\ codec.res.err = "ErrLineMustEndWithCrlf"

\* The command, the transport byte and the length field of the v2 header on
\* the wire; the transport is one of the seven defined ones, UNSPEC with
\* LOCAL only.
WireCmd == codec.out.bytes[13]

WireTransport == codec.out.bytes[14]

WireLength == BE16(codec.out.bytes[15], codec.out.bytes[16])

WireDefined ==
    /\ WireTransport \in {UNSPEC, TCPv4, UDPv4, TCPv6, UDPv6, UnixStream, UnixDatagram}
    /\ WireTransport = UNSPEC => WireCmd = CmdLOCAL

\* C26: the v2 parser returns a header only for one of the seven defined
\* transport bytes, UNSPEC only with LOCAL; for every other transport byte
\* it fails with ErrUnsupportedAddressFamilyAndProtocol and returns no
\* header.
C26_TransportByte ==
    ParsedWire(V2Wires) =>
        /\ codec.res.err = "nil" => WireDefined
        /\ ~WireDefined =>
               /\ codec.res.err = "ErrUnsupportedAddressFamilyAndProtocol"
               /\ codec.res.header = NilHeader

\* C27: for a defined transport the v2 parser fails with ErrInvalidLength
\* and returns no header when the length field is below the minimum of the
\* family (0, 12, 36, 216) and when the source holds fewer bytes than the
\* length field says; UNSPEC with LOCAL and the length 0 gives a header
\* without addresses and without TLVs.
C27_InvalidLength ==
    (ParsedWire(V2Wires) /\ WireDefined) =>
        LET least == IF WireTransport \in {TCPv4, UDPv4} THEN 12
                     ELSE IF WireTransport \in {TCPv6, UDPv6} THEN 36
                     ELSE IF WireTransport \in {UnixStream, UnixDatagram} THEN 216
                     ELSE 0
        IN  /\ (WireLength < least \/ Len(codec.out.bytes) - 16 < WireLength) =>
                   /\ codec.res.err = "ErrInvalidLength"
                   /\ codec.res.header = NilHeader
            /\ (WireTransport = UNSPEC /\ WireLength = 0) =>
                   /\ codec.res.err = "nil"
                   /\ codec.res.header =
                          [Version |-> 2, Command |-> CmdLOCAL, TransportProtocol |-> UNSPEC,
                           SourceAddr |-> NilAddr, DestinationAddr |-> NilAddr,
                           rawTLVs |-> <<>>]

\* C27, witness: a TCPv6 header with the length 35 has been refused.
C27_Witness ==
    /\ ParsedWire(V2Wires)
    /\ WireTransport = TCPv6 /\ WireLength = 35 /\ Len(codec.out.bytes) = 16 + 35
    /\ codec.res.err = "ErrInvalidLength"

\* The number of bytes of the address block of the header of the state, and
\* of its raw TLVs.
FixedBytes ==
    IF codec.h.TransportProtocol \in {TCPv4, UDPv4} THEN 12
    ELSE IF codec.h.TransportProtocol \in {TCPv6, UDPv6} THEN 36
    ELSE IF codec.h.TransportProtocol \in {UnixStream, UnixDatagram} THEN 216
    ELSE 0

RawBytes == IF codec.step = "measured" THEN 3 + codec.tlvs[1].n ELSE Len(codec.h.rawTLVs)

\* C28: whenever the address block and the raw TLVs have more than 65535
\* bytes together, for every transport, UNSPEC included, formatVersion2
\* returns errUint16Overflow and no bytes.
C28_Overflow ==
    (codec.step = "measured" /\ FixedBytes + RawBytes > 65535) =>
        /\ codec.out.err = "errUint16Overflow"
        /\ codec.out.size = 0

\* C29: the bytes formatVersion2 returns are the signature, the command, the
\* transport, the big-endian length of what follows, which is the address
\* block and the raw TLVs, then an address block of 0, 12, 36 or 216 bytes
\* (each Unix path in 108 bytes, padded with NUL), then the raw TLVs.
C29_Layout ==
    /\ (codec.step = "measured" /\ codec.out.err = "nil") =>
           /\ codec.out.size = 16 + FixedBytes + RawBytes
           /\ codec.out.head = SIGV2 \o <<codec.h.Command, codec.h.TransportProtocol>>
                               \o <<(FixedBytes + RawBytes) \div 256,
                                    (FixedBytes + RawBytes) % 256>>
    /\ (codec.step = "formatted" /\ codec.h.Version = 2 /\ codec.out.err = "nil") =>
           /\ Len(codec.out.bytes) = 16 + FixedBytes + RawBytes
           /\ Take(codec.out.bytes, 16) =
                  SIGV2 \o <<codec.h.Command, codec.h.TransportProtocol>>
                  \o <<(FixedBytes + RawBytes) \div 256, (FixedBytes + RawBytes) % 256>>
           /\ Drop(codec.out.bytes, 16 + FixedBytes) = codec.h.rawTLVs
           /\ FixedBytes = 216 =>
                  /\ SubSeq(codec.out.bytes, 17, 124) =
                         codec.h.SourceAddr.Name \o Zeros(108 - Len(codec.h.SourceAddr.Name))
                  /\ SubSeq(codec.out.bytes, 125, 232) =
                         codec.h.DestinationAddr.Name
                         \o Zeros(108 - Len(codec.h.DestinationAddr.Name))

\* C31: SplitTLVs takes its whole input and returns the entries in the order
\* of the wire, the NOOP entries left out; it fails with ErrTruncatedTLV and
\* returns no entry exactly when the input ends within the three bytes of
\* type and length of an entry or within its value. The input is the join of
\* a list with some bytes cut off its end: it is whole entries exactly when
\* its length is the length of the join of the first k entries for some k,
\* and these k entries are then the ones to return.
C31_SplitWhole ==
    codec.step = "splitraw" =>
        LET size(k) == Len(JoinRaw(Values(SubSeq(codec.tlvs, 1, k))))
            raw     == CutRaw(codec.tlvs, codec.cut)
            whole   == {k \in 0..Len(codec.tlvs) : size(k) = Len(raw)}
            kept(k) == SelectSeq(SubSeq(codec.tlvs, 1, k), LAMBDA t : t.Type # PP2_TYPE_NOOP)
        IN  IF whole # {}
            THEN /\ codec.split.err = "nil"
                 /\ \E k \in whole :
                       codec.split.tlvs =
                           [i \in 1..Len(kept(k)) |->
                               [Type |-> kept(k)[i].Type, n |-> kept(k)[i].n, same |-> TRUE]]
            ELSE codec.split = Described(NoTLVs("ErrTruncatedTLV"))

\* C31, witness: a vector that ends within an entry has been split.
C31_Witness ==
    /\ codec.step = "splitraw"
    /\ codec.cut > 0
    /\ codec.split.err = "ErrTruncatedTLV"
    /\ Len(codec.tlvs) > 1

\* C32: when parseVersion2 returns a header it has taken exactly 16 bytes
\* and the bytes of the length field from the reader, the raw TLVs of the
\* header are the bytes of the payload after the address block of the family
\* (none for UNSPEC), and what follows the payload is still in the reader;
\* when it fails it returns no header.
C32_Consumed ==
    ParsedWire(V2Wires) =>
        LET fixed == IF WireTransport \div 16 = 1 THEN 12
                     ELSE IF WireTransport \div 16 = 2 THEN 36
                     ELSE IF WireTransport \div 16 = 3 THEN 216
                     ELSE 0
        IN  /\ codec.res.st = "done"
            /\ codec.res.err = "nil" =>
                   /\ codec.res.n = 16 + WireLength
                   /\ codec.res.header.Version = 2
                   /\ codec.res.header.rawTLVs =
                          SubSeq(codec.out.bytes, 16 + fixed + 1, 16 + WireLength)
            /\ codec.res.err # "nil" => codec.res.header = NilHeader

\* C32, witness: a header with TLVs has been parsed from a reader that holds
\* more bytes than the header.
C32_Witness ==
    /\ ParsedWire(V2Wires)
    /\ codec.res.err = "nil"
    /\ codec.res.header.rawTLVs # <<>>
    /\ WireTransport = TCPv6
    /\ Len(codec.out.bytes) > 16 + WireLength

\* C33, as stated: whenever the reader has run out of buffered bytes before
\* the LF of the v1 line, parseVersion1 fails with ErrCantReadVersion1Header
\* and does not wait for the rest; a line that is buffered up to its LF is
\* never refused with this error.
C33_SplitLine ==
    ParsedWire(V1Lines) =>
        /\ (WireLF = 0 /\ Len(codec.out.bytes) <= V1MaxLine) =>
               codec.res = Fail("ErrCantReadVersion1Header", Len(codec.out.bytes))
        /\ WireLF > 0 => codec.res.err # "ErrCantReadVersion1Header"

\* C33, amended: the same for a reader that has run out before the LF with
\* fewer than 107 bytes of the line read; with 107 bytes read and no LF the
\* length check, which comes first, answers ErrVersion1HeaderTooLong.
C33_SplitLineBelow107 ==
    ParsedWire(V1Lines) =>
        /\ (WireLF = 0 /\ Len(codec.out.bytes) < V1MaxLine) =>
               codec.res = Fail("ErrCantReadVersion1Header", Len(codec.out.bytes))
        /\ (WireLF = 0 /\ Len(codec.out.bytes) >= V1MaxLine) =>
               codec.res = Fail("ErrVersion1HeaderTooLong", V1MaxLine)
        /\ WireLF > 0 => codec.res.err # "ErrCantReadVersion1Header"

\* C33, witness: the line "PROXY TCP4 1.1", whose rest has not arrived, has
\* been refused.
C33_Witness ==
    /\ ParsedWire(V1Lines)
    /\ WireLF = 0 /\ Len(codec.out.bytes) = 14
    /\ codec.res.st = "done"
    /\ codec.res.err = "ErrCantReadVersion1Header"

\* C34: on a stream that starts with a header, once WriteTo has returned at
\* the end of the stream, the bytes it has written to its destination are
\* the payload without the bytes the Reads before it have returned: no byte
\* of the header, and every byte of the payload that no Read has returned,
\* also those the header read had taken into the buffered reader.
C34_WriteToPayload ==
    (HasHeader /\ ret.op = "WriteTo") => delivered \o copied = Payload

\* C36: when SetReadDeadline(t) or SetDeadline(t) is the call that returned
\* last and the header read has ended, the read deadline of the connection
\* is t; so it is for a call that returned while the header read of another
\* goroutine was in progress, once that header read has ended.
C36_CallerDeadlineWins ==
    (once = "done" /\ ret.op \in {"SetReadDeadline", "SetDeadline"}) =>
        connDeadline = ret.arg

\* C37: whenever Accept is back at the listener, has returned or has
\* panicked, every connection it has obtained from the listener has either
\* been closed by it or is the one it has returned, raw or wrapped, and not
\* both; so also when Policy and ConnPolicy are both configured.
C37_NoLeak ==
    accept.pc \in {"accept", "returned", "panicked"} =>
        \A c \in 1..accept.conns :
            (c \in accept.closed) #
                (accept.ret.kind \in {"conn", "wrapper"} /\ accept.ret.conn = c)

C35_ReaderNotShared ==
    /\ Len(pool) <= 1
    /\ ~(hasBufReader /\ pool # <<>>)
    /\ \A i \in 1..Len(pool) : pool[i].buffered = <<>>

\* C39: in the epoll forwarder, when epollZeroCopy returns without error,
\* the bytes written to the destination are the bytes read from the source,
\* in order, and total is their number: no chunk was overwritten in the
\* transfer buffer before all of it was written, whether the destination
\* was writable or not.
C39_ChunksWritten ==
    (fwd.pc = "returned" /\ fwd.err = "nil") =>
        /\ fwd.dst = fwd.read
        /\ fwd.total = Len(fwd.read)

\* C40: the epoll forwarder returns without error only when the source has
\* reached its end: a source that is open and has nothing to read for one
\* wait of a second does not end the transfer.
C40_ReturnsAtEnd ==
    (fwd.pc = "returned" /\ fwd.err = "nil") => (fwd.srcClosed /\ fwd.src = <<>>)

====
